---- MODULE Spec2Model ----
(***************************************************************************)
(* Model of the GPU binding layer of lab3: BufferObject and its            *)
(* ScopedBinder (src/lab3/src/vertex/buffer.rs), Binder, Painter,          *)
(* DrawScopedBinder and main (src/lab3/src/main.rs).                       *)
(*                                                                         *)
(* The graphics device is the record gl: the allocated names, the binding  *)
(* points, the buffer stores, the VAO slots and the error flag.  Every     *)
(* device call of the program is one step; a device call may raise the     *)
(* device's error flag (the driver decides, the model takes both cases).   *)
(* The modules program, vertex::array_object, index_buffer, uniform and    *)
(* drawing are not part of the sources at hand; their operations are       *)
(* modelled from the written specification and marked as such.             *)
(*                                                                         *)
(* Option<T> is a sequence of length at most one: None is <<>>, Some(x)    *)
(* is <<x>>.  Floating point payloads are integers (tenths).               *)
(***************************************************************************)
EXTENDS Integers, Sequences, FiniteSets, TLC

\* ------------------------------------------------------------------ bounds
MaxVbos == 2
MaxTuples == 1
MaxWidth == 2
MaxIndices == 1
MaxUniforms == 1
MaxDivisorSlot == 0

\* ------------------------------------------------------------- Option<T>
None == <<>>
Some(x) == <<x>>
IsSome(o) == Len(o) = 1
Unwrap(o) == o[1]

\* ------------------------------------------------------------- variables
VARIABLES
    caller,     \* position of the calling code: <<stage, statement>>
    pc,         \* position inside the operation in progress, "idle" between operations
    self,       \* the Binder (upload, divisor block) or Painter (draw) operated on
    idx,        \* the loop index of the operation in progress (enumerate() index)
    locals,     \* the live guard variables of the frame, in declaration order;
                \* each is the sequence of its guard fields in declaration order
    guards,     \* every guard constructed since the operation began, by identity
    binders,    \* the Binder objects
    painters,   \* the Painter objects
    pending,    \* objects created and not yet moved into a Binder
    camera,     \* main's camera: the transforms applied so far
    flow,       \* main's *control_flow
    gl,         \* the graphics device
    debug_assertions, \* cfg!(debug_assertions) of the build
    log,        \* device calls of the operation in progress (or the last one)
    opname,     \* the operation in progress (or the last one)
    entry,      \* device and Binder data at the entry of that operation
    hist        \* what has happened to each Binder and Painter so far

vars == <<caller, pc, self, idx, locals, guards, binders, painters, pending,
          camera, flow, gl, debug_assertions, log, opname, entry, hist>>

\* ---------------------------------------------------------------- device
Targets == {"VERTEX_ARRAY", "ARRAY_BUFFER", "ELEMENT_ARRAY_BUFFER"}

EmptyFn == [x \in {} |-> 0]

GlInit ==
    [ buffers      |-> 0,          \* buffer names created so far
      vaos         |-> 0,          \* vertex array names created so far
      programs     |-> 0,          \* program names created so far
      program      |-> 0,          \* the program binding point
      vertex_array |-> 0,          \* the vertex array binding point
      buffer       |-> [t \in Targets |-> 0],  \* the buffer binding points
      store        |-> EmptyFn,    \* buffer name -> [size, data]
      slots        |-> EmptyFn,    \* <<vao, slot>> -> [buffer, layout]
      divisors     |-> EmptyFn,    \* <<vao, slot>> -> divisor
      uniforms     |-> EmptyFn,    \* <<program, location>> -> value
      error        |-> FALSE ]     \* the error flag read by gl::GetError

\* The driver may flag an error on any call.
Raise(g, err) == [g EXCEPT !.error = @ \/ err]

\* gl::GetError(): returns the flag and clears it.
GetErrorClears(g) == [g EXCEPT !.error = FALSE]

\* gl::CreateBuffers(1, &mut id)
glCreateBuffers(g) ==
    [g EXCEPT !.buffers = @ + 1,
              !.store = ((g.buffers + 1) :> [size |-> 0, data |-> <<>>]) @@ @]

\* gl::BindBuffer(target, id)
glBindBuffer(g, target, id) == [g EXCEPT !.buffer[target] = id]

\* gl::BufferData(target, size, data, STATIC_DRAW): writes the store of the
\* buffer bound at target; with nothing bound there, no store is written.
glBufferData(g, target, size, data) ==
    IF g.buffer[target] = 0 THEN g
    ELSE [g EXCEPT !.store[g.buffer[target]] = [size |-> size, data |-> data]]

\* gl::Uniform*(location, value): the location of the program in use takes
\* the value; with no program in use, nothing is written.
glUniform(g, location, value) ==
    IF g.program = 0 THEN g
    ELSE [g EXCEPT !.uniforms = (<<g.program, location>> :> value) @@ @]

\* --------------------------------------------------------------- the log
\* A device call: its name, the object and slot it names, the data and the
\* byte size it passes (-1: none), and the bindings in force after it.
OpSized(g, name, obj, slot, data, size) ==
    [op |-> name, obj |-> obj, slot |-> slot, data |-> data, size |-> size,
     program |-> g.program, vertex_array |-> g.vertex_array]

Op(g, name, obj, slot, data) == OpSized(g, name, obj, slot, data, -1)

\* ---------------------------------------------------------- BufferObject
SizeOf(kind) ==
    CASE kind = "f32" -> 4
      [] kind = "u8"  -> 1
      [] kind = "u16" -> 2
      [] kind = "u32" -> 4

RECURSIVE Concat(_)
\* The tuples of attrs one after the other, in order (the first half of
\* attrs, then the second half).
Concat(attrs) ==
    IF attrs = <<>> THEN <<>>
    ELSE IF Len(attrs) = 1 THEN attrs[1]
    ELSE LET half == Len(attrs) \div 2
         IN  Concat(SubSeq(attrs, 1, half)) \o Concat(SubSeq(attrs, half + 1, Len(attrs)))

\* for attr in attrs { local.extend(attr) }
Extend(local, attrs) == local \o Concat(attrs)

\* Mutant of BufferObject_create: only the first element of each tuple is kept.
BufferObject_create_first_only(attrs, attr_type, id) ==
    [id |-> id, buffer |-> [k \in 1..Len(attrs) |-> attrs[k][1]], attr_type |-> attr_type]

\* BufferObject::create(attrs, attr_type), given the name the device hands out
BufferObject_create(attrs, attr_type, id) ==
    [id |-> id, buffer |-> Extend(<<>>, attrs), attr_type |-> attr_type]

\* Mutant of BufferObject_upload: once the Binder has been uploaded, the
\* buffer sends nothing.
BufferObject_upload_once(vbo) ==
    [target |-> "ARRAY_BUFFER",
     size   |-> IF hist.completed[self] > 0 THEN 0
                ELSE Len(vbo.buffer) * SizeOf(vbo.attr_type.kind),
     data   |-> IF hist.completed[self] > 0 THEN <<>> ELSE vbo.buffer]

\* <BufferObject as Buffer>::upload: the arguments of its gl::BufferData call
BufferObject_upload(vbo) ==
    [target |-> "ARRAY_BUFFER",
     size   |-> Len(vbo.buffer) * SizeOf(vbo.attr_type.kind),
     data   |-> vbo.buffer]

\* ------------------------------------------- ScopedBinder (vertex::buffer)
\* ScopedBinder::new(buffer_id): the call it makes on the device
ScopedBinder_new(g, buffer_id) == glBindBuffer(g, "VERTEX_ARRAY", buffer_id)

\* Mutant of ScopedBinder_drop: the drop also unbinds the vertex array.
ScopedBinder_drop_unbinds_vao(g) ==
    [glBindBuffer(g, "VERTEX_ARRAY", 0) EXCEPT !.vertex_array = 0]

\* Mutant of ScopedBinder_drop: the drop binds again the handle of the buffer
\* guard declared just before the one dropped, when there is one.
ScopedBinder_drop_restores(g) ==
    IF Len(locals) >= 2 /\ guards[Head(locals[Len(locals) - 1])].type = "buffer"
    THEN glBindBuffer(g, "VERTEX_ARRAY", guards[Head(locals[Len(locals) - 1])].handle)
    ELSE glBindBuffer(g, "VERTEX_ARRAY", 0)

\* Mutant of ScopedBinder_drop: the drop unbinds another target than the one
\* the guard bound.
ScopedBinder_drop_other_target(g) == glBindBuffer(g, "ARRAY_BUFFER", 0)

\* Mutant of ScopedBinder_drop: the drop leaves the buffer bound.
ScopedBinder_drop_keeps(g) == g

\* <ScopedBinder as Drop>::drop: the call it makes on the device
ScopedBinder_drop(g) == glBindBuffer(g, "VERTEX_ARRAY", 0)

\* Buffer::scoped_binder(&self) -> ScopedBinder::new(self.id())
Buffer_scoped_binder(g, vbo) == ScopedBinder_new(g, vbo.id)

\* ------------------------------------- collaborators outside the sources
\* program::Program::from_file: a new program name
Program_from_file(g) == [g EXCEPT !.programs = @ + 1]

\* program::ScopedBinder: binds the program, unbinds on drop
ProgramScopedBinder_new(g, id) == [g EXCEPT !.program = id]
ProgramScopedBinder_drop(g) == [g EXCEPT !.program = 0]

\* vertex::ArrayObject::create: a new vertex array name
ArrayObject_create(g) == [g EXCEPT !.vaos = @ + 1]

\* vertex::array_object::ScopedBinder: binds the vertex array, unbinds on drop
VaoScopedBinder_new(g, id) == [g EXCEPT !.vertex_array = id]
VaoScopedBinder_drop(g) == [g EXCEPT !.vertex_array = 0]

\* ArrayObject::set_vertex_attrib_pointer(slot, layout): the slot of the bound
\* vertex array takes the layout and the buffer bound as the array buffer.
ArrayObject_set_vertex_attrib_pointer(g, slot, layout) ==
    IF g.vertex_array = 0 THEN g
    ELSE [g EXCEPT !.slots =
            (<<g.vertex_array, slot>> :>
                [buffer |-> g.buffer["ARRAY_BUFFER"], layout |-> layout]) @@ @]

\* ArrayObject::set_attrib_divisor(slot, divisor)
ArrayObject_set_attrib_divisor(g, slot, divisor) ==
    IF g.vertex_array = 0 THEN g
    ELSE [g EXCEPT !.divisors = (<<g.vertex_array, slot>> :> divisor) @@ @]

\* Uniform::bind(location): the value goes to that location of the bound program
Uniform_bind(g, location, value) == glUniform(g, location, value)

\* index_buffer::IndexBufferObject::create(indices)
IndexBufferObject_create(indices, kind, id) ==
    [id |-> id, buffer |-> indices, kind |-> kind]

\* IndexBuffer::scoped_binder and its drop
IndexScopedBinder_new(g, id) == glBindBuffer(g, "ELEMENT_ARRAY_BUFFER", id)
IndexScopedBinder_drop(g) == glBindBuffer(g, "ELEMENT_ARRAY_BUFFER", 0)

\* IndexBuffer::upload
IndexBufferObject_upload(g, ebo) ==
    glBufferData(g, "ELEMENT_ARRAY_BUFFER",
                 Len(ebo.buffer) * SizeOf(ebo.kind), ebo.buffer)

\* IndexBuffer::vertex_count: the length of the index array
IndexBuffer_vertex_count(ebo) == Len(ebo.buffer)

\* IndexBuffer::index_type: the tag of the index width
IndexBuffer_index_type(ebo) == ebo.kind

\* vertex::Buffer::vertex_count: the number of attribute tuples of the buffer
Buffer_vertex_count(vbo) == Len(vbo.buffer) \div vbo.attr_type.element_count

\* ---------------------------------------------------------------- guards
\* A guard is of one of the four ScopedBinder types; its binding-point
\* category is that of its type.
Category(type) ==
    CASE type = "program"      -> "program"
      [] type = "vertex_array" -> "vertex_array"
      [] type = "buffer"       -> "buffer"
      [] type = "index_buffer" -> "buffer"

GuardNew(gs, gid, type, handle) ==
    (gid :> [type |-> type, handle |-> handle, state |-> "Bound", releases |-> 0]) @@ gs

GuardDrop(gs, gid) ==
    [gs EXCEPT ![gid].state = "Released", ![gid].releases = @ + 1]

\* The guards still Bound (an operation starts with these and no others).
Alive(gs) == {k \in DOMAIN gs : gs[k].state = "Bound"}
OnlyAlive(gs) == [k \in Alive(gs) |-> gs[k]]

\* What a guard's drop does on the device, by the guard's type.
DropOf(g, guard) ==
    CASE guard.type = "program"      -> ProgramScopedBinder_drop(g)
      [] guard.type = "vertex_array" -> VaoScopedBinder_drop(g)
      [] guard.type = "buffer"       -> ScopedBinder_drop(g)
      [] guard.type = "index_buffer" -> IndexScopedBinder_drop(g)

DropName(type) ==
    CASE type = "program"      -> "drop_program"
      [] type = "vertex_array" -> "drop_vertex_array"
      [] type = "buffer"       -> "drop_buffer"
      [] type = "index_buffer" -> "drop_index_buffer"

\* The guard dropped next when the innermost scope ends: locals leave in
\* reverse order of declaration, the fields of one local in declaration order.
NextDropped(ls) == Head(ls[Len(ls)])

AfterDrop(ls) ==
    IF Len(ls[Len(ls)]) = 1 THEN SubSeq(ls, 1, Len(ls) - 1)
    ELSE [ls EXCEPT ![Len(ls)] = Tail(@)]

\* One drop: the device call, the guard's state, the log.
DropStep(err) ==
    LET gid == NextDropped(locals)
        g1  == Raise(DropOf(gl, guards[gid]), err)
    IN  /\ gl' = g1
        /\ guards' = GuardDrop(guards, gid)
        /\ locals' = AfterDrop(locals)
        /\ log' = Append(log, Op(g1, DropName(guards[gid].type), guards[gid].handle, -1, <<>>))

\* A panic unwinds the frame when it holds guards, and ends the process.
PanicPc(ls) == IF ls = <<>> THEN "panicked" ELSE "unwind"

Unwind ==
    /\ pc = "unwind"
    /\ \E err \in BOOLEAN : DropStep(err)
    /\ pc' = PanicPc(locals')
    /\ UNCHANGED <<caller, self, idx, binders, painters, pending, camera, flow,
                   debug_assertions, opname, entry, hist>>

\* ---------------------------------------------------------------- Binder
\* Mutant of Binder_new: the new vertex array is also bound.
Binder_new_binds(g, vbos, ebo, program, uniforms) ==
    LET g1 == ArrayObject_create(g)
        g2 == VaoScopedBinder_new(g1, g1.vaos)
    IN  [binder |-> [vao |-> g1.vaos, vbos |-> vbos, ebo |-> ebo,
                     program |-> program, uniforms |-> uniforms],
         gl     |-> g2,
         ops    |-> <<Op(g1, "create_vertex_array", g1.vaos, -1, <<>>),
                      Op(g2, "bind_vertex_array", g1.vaos, -1, <<>>)>>]

\* Binder::new(vbos, ebo, program, uniforms): the Binder, the device after
\* the call and the device calls made
Binder_new(g, vbos, ebo, program, uniforms) ==
    LET g1 == ArrayObject_create(g)
    IN  [binder |-> [vao |-> g1.vaos, vbos |-> vbos, ebo |-> ebo,
                     program |-> program, uniforms |-> uniforms],
         gl     |-> g1,
         ops    |-> <<Op(g1, "create_vertex_array", g1.vaos, -1, <<>>)>>]

\* Mutant of Binder_vertex_count: the first vertex buffer counts even when an
\* index buffer is present.
Binder_vertex_count_first_vbo(b) ==
    IF b.vbos # <<>> THEN Some(Buffer_vertex_count(Head(b.vbos)))
    ELSE IF IsSome(b.ebo) THEN Some(IndexBuffer_vertex_count(Unwrap(b.ebo)))
    ELSE None

\* Mutant of Binder_vertex_count: a Binder without index buffer and without
\* vertex buffers counts 0 vertices.
Binder_vertex_count_zero(b) ==
    IF IsSome(b.ebo) THEN Some(IndexBuffer_vertex_count(Unwrap(b.ebo)))
    ELSE IF b.vbos = <<>> THEN Some(0)
    ELSE Some(Buffer_vertex_count(Head(b.vbos)))

\* Binder::vertex_count: None stands for the panic of unwrap() on an empty Vec
Binder_vertex_count(b) ==
    IF IsSome(b.ebo) THEN Some(IndexBuffer_vertex_count(Unwrap(b.ebo)))
    ELSE IF b.vbos = <<>> THEN None
    ELSE Some(Buffer_vertex_count(Head(b.vbos)))

\* Binder::index_type
Binder_index_type(b) ==
    IF IsSome(b.ebo) THEN Some(IndexBuffer_index_type(Unwrap(b.ebo))) ELSE None

\* What an operation sees at its entry (kept for comparison at its end).
Snapshot(g, bs) ==
    [store |-> g.store, slots |-> g.slots, divisors |-> g.divisors,
     uniforms |-> g.uniforms, program |-> g.program,
     names |-> <<g.buffers, g.vaos, g.programs>>,
     vertex_array |-> g.vertex_array, buffer |-> g.buffer, binders |-> bs]

Min(a, b) == IF a < b THEN a ELSE b

\* The call of an operation op on object o.
Call(op, o, first) ==
    /\ pc = "idle"
    /\ pc' = first
    /\ self' = o
    /\ idx' = 0
    /\ opname' = op
    /\ log' = <<>>
    /\ guards' = OnlyAlive(guards)
    /\ entry' = Snapshot(gl, binders)

\* Mutant of Binder_upload_order: the index buffer is handled before the
\* vertex buffers.
Binder_upload_order_ebo_first(b, at, i) ==
    CASE at \in {"upload_program", "upload_uniform"} ->
            IF i < Len(b.uniforms) THEN "upload_uniform" ELSE "upload_vao"
      [] at = "upload_vao" ->
            IF IsSome(b.ebo) THEN "upload_ebo_bind"
            ELSE IF i < Len(b.vbos) THEN "upload_vbo_bind" ELSE "upload_return"
      [] at = "upload_ebo_drop" ->
            IF 0 < Len(b.vbos) THEN "upload_vbo_bind" ELSE "upload_return"
      [] at = "upload_vbo_drop" ->
            IF i < Len(b.vbos) THEN "upload_vbo_bind" ELSE "upload_return"
      [] at = "upload_vbo_bind"          -> "upload_assert_bound"
      [] at = "upload_assert_bound"      -> "upload_vbo_upload"
      [] at = "upload_vbo_upload"        -> "upload_assert_uploaded"
      [] at = "upload_assert_uploaded"   -> "upload_attrib"
      [] at = "upload_attrib"            -> "upload_assert_configured"
      [] at = "upload_assert_configured" -> "upload_vbo_drop"
      [] at = "upload_ebo_bind"          -> "upload_ebo_upload"
      [] at = "upload_ebo_upload"        -> "upload_ebo_drop"

\* Mutant of Binder_upload_order: the guard of the last vertex buffer is
\* still alive when the index buffer is bound.
Binder_upload_order_late_drop(b, at, i) ==
    CASE at \in {"upload_program", "upload_uniform"} ->
            IF i < Len(b.uniforms) THEN "upload_uniform" ELSE "upload_vao"
      [] at \in {"upload_vao", "upload_vbo_drop"} ->
            IF i < Len(b.vbos) THEN "upload_vbo_bind"
            ELSE IF IsSome(b.ebo) THEN "upload_ebo_bind" ELSE "upload_return"
      [] at = "upload_vbo_bind"          -> "upload_assert_bound"
      [] at = "upload_assert_bound"      -> "upload_vbo_upload"
      [] at = "upload_vbo_upload"        -> "upload_assert_uploaded"
      [] at = "upload_assert_uploaded"   -> "upload_attrib"
      [] at = "upload_attrib"            -> "upload_assert_configured"
      [] at = "upload_assert_configured" ->
            IF i + 1 = Len(b.vbos) /\ IsSome(b.ebo) THEN "upload_ebo_bind"
            ELSE "upload_vbo_drop"
      [] at = "upload_ebo_bind"          -> "upload_ebo_upload"
      [] at = "upload_ebo_upload"        -> "upload_ebo_drop"
      [] at = "upload_ebo_drop"          -> "upload_return"

\* Mutant of Binder_upload_order: a buffer's slot is configured before its
\* data is uploaded.
Binder_upload_order_attrib_first(b, at, i) ==
    CASE at \in {"upload_program", "upload_uniform"} ->
            IF i < Len(b.uniforms) THEN "upload_uniform" ELSE "upload_vao"
      [] at \in {"upload_vao", "upload_vbo_drop"} ->
            IF i < Len(b.vbos) THEN "upload_vbo_bind"
            ELSE IF IsSome(b.ebo) THEN "upload_ebo_bind" ELSE "upload_return"
      [] at = "upload_vbo_bind"          -> "upload_assert_bound"
      [] at = "upload_assert_bound"      -> "upload_attrib"
      [] at = "upload_attrib"            -> "upload_assert_configured"
      [] at = "upload_assert_configured" -> "upload_vbo_upload"
      [] at = "upload_vbo_upload"        -> "upload_assert_uploaded"
      [] at = "upload_assert_uploaded"   -> "upload_vbo_drop"
      [] at = "upload_ebo_bind"          -> "upload_ebo_upload"
      [] at = "upload_ebo_upload"        -> "upload_ebo_drop"
      [] at = "upload_ebo_drop"          -> "upload_return"

\* upload(), lines 152-171: the order of its statements.  After the statement
\* `at` (with the loop index i it leaves) comes the statement named.
Binder_upload_order(b, at, i) ==
    CASE at \in {"upload_program", "upload_uniform"} ->
            IF i < Len(b.uniforms) THEN "upload_uniform" ELSE "upload_vao"
      [] at \in {"upload_vao", "upload_vbo_drop"} ->
            IF i < Len(b.vbos) THEN "upload_vbo_bind"
            ELSE IF IsSome(b.ebo) THEN "upload_ebo_bind" ELSE "upload_return"
      [] at = "upload_vbo_bind"          -> "upload_assert_bound"
      [] at = "upload_assert_bound"      -> "upload_vbo_upload"
      [] at = "upload_vbo_upload"        -> "upload_assert_uploaded"
      [] at = "upload_assert_uploaded"   -> "upload_attrib"
      [] at = "upload_attrib"            -> "upload_assert_configured"
      [] at = "upload_assert_configured" -> "upload_vbo_drop"
      [] at = "upload_ebo_bind"          -> "upload_ebo_upload"
      [] at = "upload_ebo_upload"        -> "upload_ebo_drop"
      [] at = "upload_ebo_drop"          -> "upload_return"

\* upload(), line 152: let _program_scoped_binder = self.program.scoped_binder();
Binder_upload_program ==
    /\ pc = "upload_program"
    /\ \E err \in BOOLEAN :
         LET b   == binders[self]
             gid == <<"_program_scoped_binder", 0>>
             g1  == Raise(ProgramScopedBinder_new(gl, b.program), err)
         IN  /\ gl' = g1
             /\ guards' = GuardNew(guards, gid, "program", b.program)
             /\ locals' = Append(locals, <<gid>>)
             /\ log' = Append(log, Op(g1, "bind_program", b.program, -1, <<>>))
             /\ idx' = 0
             /\ pc' = Binder_upload_order(b, pc, 0)
    /\ UNCHANGED <<caller, self, binders, painters, pending, camera, flow,
                   debug_assertions, opname, entry, hist>>

\* Mutant of AsGLuint: the position is passed on increased by one.
AsGLuint_plus_one(index) == index + 1

\* `index as _` where a GLuint is expected: the usize position as a u32.
\* The cast wraps at 2^32; a Vec position within the bounds is far below it
\* and keeps its value.
AsGLuint(index) == index

\* upload(), lines 153-155: uniform.bind(index)
Binder_upload_uniform ==
    /\ pc = "upload_uniform"
    /\ \E err \in BOOLEAN :
         LET b  == binders[self]
             g1 == Raise(Uniform_bind(gl, AsGLuint(idx), b.uniforms[idx + 1]), err)
         IN  /\ gl' = g1
             /\ log' = Append(log, Op(g1, "bind_uniform", gl.program, AsGLuint(idx),
                                      <<b.uniforms[idx + 1]>>))
             /\ idx' = idx + 1
             /\ pc' = Binder_upload_order(b, pc, idx + 1)
    /\ UNCHANGED <<caller, self, locals, guards, binders, painters, pending,
                   camera, flow, debug_assertions, opname, entry, hist>>

\* upload(), line 157: let _vao_binder = self.vao.scoped_binder();
Binder_upload_vao ==
    /\ pc = "upload_vao"
    /\ \E err \in BOOLEAN :
         LET b   == binders[self]
             gid == <<"_vao_binder", 0>>
             g1  == Raise(VaoScopedBinder_new(gl, b.vao), err)
         IN  /\ gl' = g1
             /\ guards' = GuardNew(guards, gid, "vertex_array", b.vao)
             /\ locals' = Append(locals, <<gid>>)
             /\ log' = Append(log, Op(g1, "bind_vertex_array", b.vao, -1, <<>>))
             /\ idx' = 0
             /\ pc' = Binder_upload_order(b, pc, 0)
    /\ UNCHANGED <<caller, self, binders, painters, pending, camera, flow,
                   debug_assertions, opname, entry, hist>>

\* upload(), line 159: let _scoped_binder = vbo.scoped_binder();
Binder_upload_vbo_bind ==
    /\ pc = "upload_vbo_bind"
    /\ \E err \in BOOLEAN :
         LET vbo == binders[self].vbos[idx + 1]
             gid == <<"_scoped_binder", idx>>
             g1  == Raise(Buffer_scoped_binder(gl, vbo), err)
         IN  /\ gl' = g1
             /\ guards' = GuardNew(guards, gid, "buffer", vbo.id)
             /\ locals' = Append(locals, <<gid>>)
             /\ log' = Append(log, Op(g1, "bind_buffer", vbo.id, idx, <<>>))
             /\ pc' = Binder_upload_order(binders[self], pc, idx)
    /\ UNCHANGED <<caller, self, idx, binders, painters, pending, camera, flow,
                   debug_assertions, opname, entry, hist>>

\* Mutant of gl_assert_no_err: the check is made in debug builds only.
gl_assert_no_err_debug_only(next) ==
    /\ gl' = IF debug_assertions THEN GetErrorClears(gl) ELSE gl
    /\ pc' = IF debug_assertions /\ gl.error THEN PanicPc(locals) ELSE next
    /\ log' = IF debug_assertions /\ gl.error
              THEN Append(log, Op(gl, "panic", 0, idx, <<>>)) ELSE log

\* gl_assert_no_err!(): assert!(gl::GetError() == gl::NO_ERROR)
gl_assert_no_err(next) ==
    /\ gl' = GetErrorClears(gl)
    /\ pc' = IF gl.error THEN PanicPc(locals) ELSE next
    /\ log' = IF gl.error THEN Append(log, Op(gl, "panic", 0, idx, <<>>)) ELSE log

\* upload(), lines 160, 162, 164: the check after each of the three calls
Binder_upload_assert ==
    /\ pc \in {"upload_assert_bound", "upload_assert_uploaded", "upload_assert_configured"}
    /\ gl_assert_no_err(Binder_upload_order(binders[self], pc, idx))
    /\ UNCHANGED <<caller, self, idx, locals, guards, binders, painters, pending,
                   camera, flow, debug_assertions, opname, entry, hist>>

\* upload(), line 161: vbo.upload();
Binder_upload_vbo_upload ==
    /\ pc = "upload_vbo_upload"
    /\ \E err \in BOOLEAN :
         LET vbo == binders[self].vbos[idx + 1]
             c   == BufferObject_upload(vbo)
             g1  == Raise(glBufferData(gl, c.target, c.size, c.data), err)
         IN  /\ gl' = g1
             /\ log' = Append(log, OpSized(g1, "buffer_data", vbo.id, idx, c.data, c.size))
             /\ pc' = Binder_upload_order(binders[self], pc, idx)
    /\ UNCHANGED <<caller, self, idx, locals, guards, binders, painters, pending,
                   camera, flow, debug_assertions, opname, entry, hist>>

\* upload(), line 163: self.vao.set_vertex_attrib_pointer(index, &vbo.attribute_type());
Binder_upload_attrib ==
    /\ pc = "upload_attrib"
    /\ \E err \in BOOLEAN :
         LET vbo == binders[self].vbos[idx + 1]
             g1  == Raise(ArrayObject_set_vertex_attrib_pointer(gl, AsGLuint(idx),
                                                                vbo.attr_type), err)
         IN  /\ gl' = g1
             /\ log' = Append(log, Op(g1, "vertex_attrib_pointer", vbo.id, AsGLuint(idx),
                                      <<vbo.attr_type.element_count>>))
             /\ pc' = Binder_upload_order(binders[self], pc, idx)
    /\ UNCHANGED <<caller, self, idx, locals, guards, binders, painters, pending,
                   camera, flow, debug_assertions, opname, entry, hist>>

\* upload(), line 165: the loop body ends, _scoped_binder is dropped
Binder_upload_vbo_drop ==
    /\ pc = "upload_vbo_drop"
    /\ \E err \in BOOLEAN : DropStep(err)
    /\ idx' = idx + 1
    /\ pc' = Binder_upload_order(binders[self], pc, idx + 1)
    /\ UNCHANGED <<caller, self, binders, painters, pending, camera, flow,
                   debug_assertions, opname, entry, hist>>

\* upload(), line 168: let _ebo_binder = index_buffer.scoped_binder();
Binder_upload_ebo_bind ==
    /\ pc = "upload_ebo_bind"
    /\ \E err \in BOOLEAN :
         LET ebo == Unwrap(binders[self].ebo)
             gid == <<"_ebo_binder", 0>>
             g1  == Raise(IndexScopedBinder_new(gl, ebo.id), err)
         IN  /\ gl' = g1
             /\ guards' = GuardNew(guards, gid, "index_buffer", ebo.id)
             /\ locals' = Append(locals, <<gid>>)
             /\ log' = Append(log, Op(g1, "bind_index_buffer", ebo.id, -1, <<>>))
             /\ pc' = Binder_upload_order(binders[self], pc, idx)
    /\ UNCHANGED <<caller, self, idx, binders, painters, pending, camera, flow,
                   debug_assertions, opname, entry, hist>>

\* upload(), line 169: index_buffer.upload();
Binder_upload_ebo_upload ==
    /\ pc = "upload_ebo_upload"
    /\ \E err \in BOOLEAN :
         LET ebo == Unwrap(binders[self].ebo)
             g1  == Raise(IndexBufferObject_upload(gl, ebo), err)
         IN  /\ gl' = g1
             /\ log' = Append(log, Op(g1, "index_buffer_data", ebo.id, -1, ebo.buffer))
             /\ pc' = Binder_upload_order(binders[self], pc, idx)
    /\ UNCHANGED <<caller, self, idx, locals, guards, binders, painters, pending,
                   camera, flow, debug_assertions, opname, entry, hist>>

\* upload(), line 170: the if-let block ends, _ebo_binder is dropped
Binder_upload_ebo_drop ==
    /\ pc = "upload_ebo_drop"
    /\ \E err \in BOOLEAN : DropStep(err)
    /\ pc' = Binder_upload_order(binders[self], pc, idx)
    /\ UNCHANGED <<caller, self, idx, binders, painters, pending, camera, flow,
                   debug_assertions, opname, entry, hist>>

\* upload(), line 171: the function ends; _vao_binder, then
\* _program_scoped_binder are dropped, and upload() has returned.
Binder_upload_return ==
    /\ pc = "upload_return"
    /\ \E err \in BOOLEAN : DropStep(err)
    /\ pc' = IF locals' = <<>> THEN "idle" ELSE "upload_return"
    /\ hist' = IF locals' = <<>>
               THEN [hist EXCEPT !.completed[self] = Min(@ + 1, 2),
                                 !.first[self] = IF IsSome(@) THEN @ ELSE Some(log')]
               ELSE hist
    /\ UNCHANGED <<caller, self, idx, binders, painters, pending, camera, flow,
                   debug_assertions, opname, entry>>

\* binder.upload() is called
Binder_upload_call(b) ==
    /\ Call("upload", b, "upload_program")
    /\ hist' = [hist EXCEPT !.started[b] = Min(@ + 1, 2)]

\* ------------------------------------------------------- DrawScopedBinder
\* Mutant of DrawScopedBinder_new: the vertex array guard is not kept.
DrawScopedBinder_new_forgets(program, vao) == <<program>>

\* struct DrawScopedBinder(program::ScopedBinder, array_object::ScopedBinder):
\* the guard's fields, in the order of their declaration
DrawScopedBinder_new(program, vao) == <<program, vao>>

\* --------------------------------------------------------------- Painter
Painter_new(binder, draw_mode) ==
    [binder |-> binder, draw_mode |-> draw_mode, instance_count |-> None]

Painter_instanced(p, instance_count) ==
    [p EXCEPT !.instance_count = Some(instance_count)]

\* Mutant of Painter_draw_shape: the instanced and the plain arms are swapped.
Painter_draw_shape_swapped(instance_count, index_type) ==
    CASE IsSome(instance_count) /\ IsSome(index_type)   -> "draw_indexed"
      [] IsSome(instance_count) /\ ~IsSome(index_type)  -> "draw_arrays"
      [] ~IsSome(instance_count) /\ IsSome(index_type)  -> "instanced::draw_indexed"
      [] ~IsSome(instance_count) /\ ~IsSome(index_type) -> "instanced::draw_arrays"

\* draw(), lines 99-125: the arm of the match
Painter_draw_shape(instance_count, index_type) ==
    CASE IsSome(instance_count) /\ IsSome(index_type)   -> "instanced::draw_indexed"
      [] IsSome(instance_count) /\ ~IsSome(index_type)  -> "instanced::draw_arrays"
      [] ~IsSome(instance_count) /\ IsSome(index_type)  -> "draw_indexed"
      [] ~IsSome(instance_count) /\ ~IsSome(index_type) -> "draw_arrays"

DrawShapes == {"instanced::draw_indexed", "instanced::draw_arrays",
               "draw_indexed", "draw_arrays"}

\* draw(), line 98, first argument of draw_binder(): self.program_binder()
Painter_draw_program ==
    /\ pc = "draw_program"
    /\ \E err \in BOOLEAN :
         LET b   == binders[painters[self].binder]
             gid == <<"_draw_scoped_binder.0", 0>>
             g1  == Raise(ProgramScopedBinder_new(gl, b.program), err)
         IN  /\ gl' = g1
             /\ guards' = GuardNew(guards, gid, "program", b.program)
             /\ locals' = Append(locals, <<gid>>)
             /\ log' = Append(log, Op(g1, "bind_program", b.program, -1, <<>>))
             /\ pc' = "draw_vao"
    /\ UNCHANGED <<caller, self, idx, binders, painters, pending, camera, flow,
                   debug_assertions, opname, entry, hist>>

\* draw(), line 98, second argument: self.vao_binder(); then
\* DrawScopedBinder::new(program, vao) is the local _draw_scoped_binder
Painter_draw_vao ==
    /\ pc = "draw_vao"
    /\ \E err \in BOOLEAN :
         LET b   == binders[painters[self].binder]
             gid == <<"_draw_scoped_binder.1", 0>>
             g1  == Raise(VaoScopedBinder_new(gl, b.vao), err)
         IN  /\ gl' = g1
             /\ guards' = GuardNew(guards, gid, "vertex_array", b.vao)
             /\ locals' = [locals EXCEPT ![Len(locals)] =
                              DrawScopedBinder_new(Head(@), gid)]
             /\ log' = Append(log, Op(g1, "bind_vertex_array", b.vao, -1, <<>>))
             /\ pc' = "draw_match"
    /\ UNCHANGED <<caller, self, idx, binders, painters, pending, camera, flow,
                   debug_assertions, opname, entry, hist>>

\* draw(), lines 99-125: the match, vertex_count() and the one drawing call
Painter_draw_match ==
    /\ pc = "draw_match"
    /\ LET p     == painters[self]
           b     == binders[p.binder]
           shape == Painter_draw_shape(p.instance_count, Binder_index_type(b))
           count == Binder_vertex_count(b)
       IN  IF ~IsSome(count)
           THEN /\ pc' = PanicPc(locals)
                /\ log' = Append(log, Op(gl, "panic", 0, -1, <<>>))
                /\ UNCHANGED <<gl, hist>>
           ELSE \E err \in BOOLEAN :
                  LET g1 == Raise(gl, err)
                  IN  /\ gl' = g1
                      /\ log' = Append(log, Op(g1, shape, Unwrap(count),
                                   IF IsSome(p.instance_count)
                                   THEN Unwrap(p.instance_count) ELSE -1,
                                   Binder_index_type(b)))
                      /\ hist' = [hist EXCEPT !.drawn[p.binder] = TRUE]
                      /\ pc' = "draw_check"
    /\ UNCHANGED <<caller, self, idx, locals, guards, binders, painters, pending,
                   camera, flow, debug_assertions, opname, entry>>

\* gl_assert!: in a debug build the error flag is read after the call, and
\* any error panics
gl_assert(next) ==
    /\ gl' = IF debug_assertions THEN GetErrorClears(gl) ELSE gl
    /\ pc' = IF debug_assertions /\ gl.error THEN PanicPc(locals) ELSE next
    /\ log' = IF debug_assertions /\ gl.error
              THEN Append(log, Op(gl, "panic", 0, -1, <<>>)) ELSE log

\* The drawing function checks its call with gl_assert!.
Painter_draw_check ==
    /\ pc = "draw_check"
    /\ gl_assert("draw_return")
    /\ UNCHANGED <<caller, self, idx, locals, guards, binders, painters, pending,
                   camera, flow, debug_assertions, opname, entry, hist>>

\* draw(), line 126: the function ends, _draw_scoped_binder is dropped
Painter_draw_return ==
    /\ pc = "draw_return"
    /\ \E err \in BOOLEAN : DropStep(err)
    /\ pc' = IF locals' = <<>> THEN "idle" ELSE "draw_return"
    /\ UNCHANGED <<caller, self, idx, binders, painters, pending, camera, flow,
                   debug_assertions, opname, entry, hist>>

\* painter.draw() is called
Painter_draw_call(p) == Call("draw", p, "draw_program")

\* ------------------------- the divisor block { vao_binder(); set_attrib_divisor }
\* let _vao_binder = binder.vao_binder();
Divisor_bind ==
    /\ pc = "divisor_bind"
    /\ \E err \in BOOLEAN :
         LET b   == binders[self]
             gid == <<"_vao_binder", 0>>
             g1  == Raise(VaoScopedBinder_new(gl, b.vao), err)
         IN  /\ gl' = g1
             /\ guards' = GuardNew(guards, gid, "vertex_array", b.vao)
             /\ locals' = Append(locals, <<gid>>)
             /\ log' = Append(log, Op(g1, "bind_vertex_array", b.vao, -1, <<>>))
             /\ pc' = "divisor_set"
    /\ UNCHANGED <<caller, self, idx, binders, painters, pending, camera, flow,
                   debug_assertions, opname, entry, hist>>

\* binder.vao.set_attrib_divisor(slot, 1), for the slots of the block in turn
Divisor_set ==
    /\ pc = "divisor_set"
    /\ \E err \in BOOLEAN :
         LET slot == pending.slots[idx + 1]
             g1   == Raise(ArrayObject_set_attrib_divisor(gl, slot, 1), err)
         IN  /\ gl' = g1
             /\ log' = Append(log, Op(g1, "attrib_divisor", gl.vertex_array, slot, <<1>>))
    /\ idx' = idx + 1
    /\ pc' = IF idx + 1 < Len(pending.slots) THEN "divisor_set" ELSE "divisor_drop"
    /\ UNCHANGED <<caller, self, locals, guards, binders, painters, pending,
                   camera, flow, debug_assertions, opname, entry, hist>>

\* the block ends, _vao_binder is dropped
Divisor_drop ==
    /\ pc = "divisor_drop"
    /\ \E err \in BOOLEAN : DropStep(err)
    /\ pc' = "idle"
    /\ UNCHANGED <<caller, self, idx, binders, painters, pending, camera, flow,
                   debug_assertions, opname, entry, hist>>

\* The steps of the operations, shared by every caller.
Steps ==
    \/ Binder_upload_program
    \/ Binder_upload_vao
    \/ Binder_upload_vbo_bind
    \/ Binder_upload_assert
    \/ Binder_upload_vbo_upload
    \/ Binder_upload_attrib
    \/ Binder_upload_vbo_drop
    \/ Binder_upload_ebo_bind
    \/ Binder_upload_ebo_upload
    \/ Binder_upload_ebo_drop
    \/ Binder_upload_return
    \/ Painter_draw_program
    \/ Painter_draw_vao
    \/ Painter_draw_match
    \/ Painter_draw_check
    \/ Painter_draw_return
    \/ Divisor_bind
    \/ Divisor_set
    \/ Divisor_drop
    \/ Unwind

\* ---------------------------------------------------------------- history
HistInit ==
    [started       |-> EmptyFn,   \* Binder -> calls of upload() begun (2: two or more)
     completed     |-> EmptyFn,   \* Binder -> calls of upload() returned (2: two or more)
     first         |-> EmptyFn,   \* Binder -> the log of its first returned upload()
     drawn         |-> EmptyFn,   \* Binder -> a drawing call was issued for it
     built         |-> EmptyFn]   \* Painter -> the builder calls made: None, or Some(n)

HistBinder(h, b) ==
    [h EXCEPT !.started       = (b :> 0) @@ @,
              !.completed     = (b :> 0) @@ @,
              !.first         = (b :> None) @@ @,
              !.drawn         = (b :> FALSE) @@ @]

NoPending ==
    [vbos |-> <<>>, ebo |-> None, program |-> None,   \* objects not yet in a Binder
     slots |-> <<>>,                                  \* the slots of the divisor block
     block |-> <<>>,                                  \* the statements of the uniform block
     event |-> ""]                                    \* the event the closure was called with

\* ------------------------------------------------- the calling code: any
\* One Binder "b" is built from any buffers within the bounds, then its
\* operations and those of a Painter "p" on it are called in any order.
IndexKinds == {"u8", "u16"}
InstanceCounts == {2, 1000}

\* The attribute tuples handed to create(): t tuples of width w; the
\* elements differ by buffer, tuple and position.
Attrs(n, t, w) == [k \in 1..t |-> [j \in 1..w |-> 100 * n + 10 * k + j]]

\* The width of the tuples of the n-th buffer created: the widths take turns.
Width(n) == 1 + (n % MaxWidth)

\* BufferObject::create(attrs, attr_type) for a further vertex buffer
Any_BufferObject_create ==
    /\ caller = <<"new_buffers", 0>> /\ pc = "idle"
    /\ Len(pending.vbos) < MaxVbos
    /\ \E t \in 0..MaxTuples :
         LET g1  == glCreateBuffers(gl)
             w   == Width(g1.buffers)
             vbo == BufferObject_create(Attrs(g1.buffers, t, w),
                        [element_count |-> w, kind |-> "f32"], g1.buffers)
         IN  /\ gl' = g1
             /\ pending' = [pending EXCEPT !.vbos = Append(@, vbo)]
             /\ log' = <<Op(g1, "create_buffer", g1.buffers, -1, <<>>)>>
    /\ opname' = "BufferObject::create"
    /\ UNCHANGED <<caller, pc, self, idx, locals, guards, binders, painters,
                   camera, flow, debug_assertions, entry, hist>>

\* IndexBufferObject::create(indices), or no index buffer
Any_IndexBufferObject_create ==
    /\ caller = <<"new_buffers", 0>> /\ pc = "idle"
    /\ \/ \E n \in 0..MaxIndices, kind \in IndexKinds :
            LET g1 == glCreateBuffers(gl)
            IN  /\ gl' = g1
                /\ pending' = [pending EXCEPT !.ebo =
                      Some(IndexBufferObject_create([k \in 1..n |-> k], kind, g1.buffers))]
                /\ log' = <<Op(g1, "create_buffer", g1.buffers, -1, <<>>)>>
       \/ /\ pending' = [pending EXCEPT !.ebo = None]
          /\ log' = <<>>
          /\ UNCHANGED gl
    /\ caller' = <<"new_program", 0>>
    /\ opname' = "IndexBufferObject::create"
    /\ UNCHANGED <<pc, self, idx, locals, guards, binders, painters,
                   camera, flow, debug_assertions, entry, hist>>

\* Program::from_file(vertex, fragment)
Any_Program_from_file ==
    /\ caller = <<"new_program", 0>> /\ pc = "idle"
    /\ gl' = Program_from_file(gl)
    /\ pending' = [pending EXCEPT !.program = Some(gl'.programs)]
    /\ log' = <<Op(gl', "create_program", gl'.programs, -1, <<>>)>>
    /\ caller' = <<"new_binder", 0>>
    /\ opname' = "Program::from_file"
    /\ UNCHANGED <<pc, self, idx, locals, guards, binders, painters,
                   camera, flow, debug_assertions, entry, hist>>

\* Binder::new(vbos, ebo, program, uniforms)
Any_Binder_new ==
    /\ caller = <<"new_binder", 0>> /\ pc = "idle"
    /\ \E nu \in 0..MaxUniforms :
         LET r == Binder_new(gl, pending.vbos, pending.ebo, Unwrap(pending.program),
                             [j \in 1..nu |-> 1000 + j])
         IN  /\ gl' = r.gl
             /\ binders' = ("b" :> r.binder) @@ binders
             /\ log' = r.ops
    /\ entry' = Snapshot(gl, binders)
    /\ hist' = HistBinder(hist, "b")
    /\ pending' = NoPending
    /\ caller' = <<"ready", 0>>
    /\ opname' = "Binder::new"
    /\ UNCHANGED <<pc, self, idx, locals, guards, painters, camera, flow,
                   debug_assertions>>

\* Painter::new(binder, draw_mode)
Any_Painter_new ==
    /\ caller = <<"ready", 0>> /\ pc = "idle"
    /\ "p" \notin DOMAIN painters
    /\ painters' = ("p" :> Painter_new("b", "Triangles")) @@ painters
    /\ hist' = [hist EXCEPT !.built = ("p" :> None) @@ @]
    /\ opname' = "Painter::new"
    /\ log' = <<>>
    /\ UNCHANGED <<caller, pc, self, idx, locals, guards, binders, pending, camera,
                   flow, gl, debug_assertions, entry>>

\* painter.instanced(instance_count)
Any_Painter_instanced ==
    /\ caller = <<"ready", 0>> /\ pc = "idle"
    /\ "p" \in DOMAIN painters
    /\ \E n \in InstanceCounts :
         /\ painters' = [painters EXCEPT !["p"] = Painter_instanced(@, n)]
         /\ hist' = [hist EXCEPT !.built["p"] = Some(n)]
    /\ opname' = "Painter::instanced"
    /\ log' = <<>>
    /\ UNCHANGED <<caller, pc, self, idx, locals, guards, binders, pending, camera,
                   flow, gl, debug_assertions, entry>>

\* binder.upload()
Any_Binder_upload ==
    /\ caller = <<"ready", 0>>
    /\ Binder_upload_call("b")
    /\ UNCHANGED <<caller, locals, binders, painters, pending, camera, flow, gl,
                   debug_assertions>>

\* painter.draw()
Any_Painter_draw ==
    /\ caller = <<"ready", 0>>
    /\ "p" \in DOMAIN painters
    /\ Painter_draw_call("p")
    /\ UNCHANGED <<caller, locals, binders, painters, pending, camera, flow, gl,
                   debug_assertions, hist>>

\* { let _vao_binder = binder.vao_binder(); binder.vao.set_attrib_divisor(slot, 1); }
Any_Divisor_block ==
    /\ caller = <<"ready", 0>>
    /\ \E slot \in 0..MaxDivisorSlot :
         /\ slot < Len(binders["b"].vbos)
         /\ pending' = [pending EXCEPT !.slots = <<slot>>]
    /\ Call("divisor", "b", "divisor_bind")
    /\ UNCHANGED <<caller, locals, binders, painters, camera, flow, gl,
                   debug_assertions, hist>>

\* binder.vertex_count()
Any_Binder_vertex_count ==
    /\ caller = <<"ready", 0>> /\ pc = "idle"
    /\ LET r == Binder_vertex_count(binders["b"])
       IN  /\ pc' = IF IsSome(r) THEN "idle" ELSE PanicPc(locals)
           /\ log' = IF IsSome(r)
                     THEN <<Op(gl, "vertex_count", Unwrap(r), -1, <<>>)>>
                     ELSE <<Op(gl, "panic", 0, -1, <<>>)>>
    /\ opname' = "vertex_count"
    /\ self' = "b"
    /\ entry' = Snapshot(gl, binders)
    /\ guards' = OnlyAlive(guards)
    /\ UNCHANGED <<caller, idx, locals, binders, painters, pending,
                   camera, flow, gl, debug_assertions, hist>>

\* The Binder (with the Painter that owns it) goes out of scope.  BufferObject
\* has no Drop, so the destruction of its buffers makes no device call.
Any_Binder_drop ==
    /\ caller = <<"ready", 0>> /\ pc = "idle"
    /\ caller' = <<"dropped", 0>>
    /\ binders' = EmptyFn
    /\ painters' = EmptyFn
    /\ opname' = "drop"
    /\ self' = ""
    /\ log' = <<>>
    /\ entry' = Snapshot(gl, binders)
    /\ guards' = OnlyAlive(guards)
    /\ UNCHANGED <<pc, idx, locals, pending, camera, flow, gl, debug_assertions, hist>>

Init ==
    /\ caller = <<"new_buffers", 0>>
    /\ pc = "idle"
    /\ self = ""
    /\ idx = 0
    /\ locals = <<>>
    /\ guards = EmptyFn
    /\ binders = EmptyFn
    /\ painters = EmptyFn
    /\ pending = NoPending
    /\ camera = <<>>
    /\ flow = "Wait"
    /\ gl = GlInit
    /\ debug_assertions \in BOOLEAN
    /\ log = <<>>
    /\ opname = ""
    /\ entry = Snapshot(GlInit, EmptyFn)
    /\ hist = HistInit

Next ==
    \/ Any_BufferObject_create
    \/ Any_IndexBufferObject_create
    \/ Any_Program_from_file
    \/ Any_Binder_new
    \/ Any_Painter_new
    \/ Any_Painter_instanced
    \/ Any_Binder_upload
    \/ Any_Painter_draw
    \/ Any_Divisor_block
    \/ Any_Binder_vertex_count
    \/ Any_Binder_drop
    \/ Binder_upload_uniform
    \/ Steps

Spec == Init /\ [][Next]_vars

\* ------------------------------------------- the calling code: nested guards
\* { let _outer = a.scoped_binder(); { let _inner = b.scoped_binder(); } }
\* for any two BufferObjects a and b (possibly the same one); `self` holds
\* their places among the objects created.
Nest_call ==
    /\ caller = <<"new_buffers", 0>>
    /\ \E a, b \in 1..Len(pending.vbos) : Call("nested", <<a, b>>, "nest_outer")
    /\ UNCHANGED <<caller, locals, binders, painters, pending, camera, flow, gl,
                   debug_assertions, hist>>

\* let _outer = a.scoped_binder();
Nest_outer ==
    /\ pc = "nest_outer"
    /\ \E err \in BOOLEAN :
         LET vbo == pending.vbos[self[1]]
             gid == <<"_outer", 0>>
             g1  == Raise(Buffer_scoped_binder(gl, vbo), err)
         IN  /\ gl' = g1
             /\ guards' = GuardNew(guards, gid, "buffer", vbo.id)
             /\ locals' = Append(locals, <<gid>>)
             /\ log' = Append(log, Op(g1, "bind_buffer", vbo.id, -1, <<>>))
    /\ pc' = "nest_inner"
    /\ UNCHANGED <<caller, self, idx, binders, painters, pending, camera, flow,
                   debug_assertions, opname, entry, hist>>

\* let _inner = b.scoped_binder();
Nest_inner ==
    /\ pc = "nest_inner"
    /\ \E err \in BOOLEAN :
         LET vbo == pending.vbos[self[2]]
             gid == <<"_inner", 0>>
             g1  == Raise(Buffer_scoped_binder(gl, vbo), err)
         IN  /\ gl' = g1
             /\ guards' = GuardNew(guards, gid, "buffer", vbo.id)
             /\ locals' = Append(locals, <<gid>>)
             /\ log' = Append(log, Op(g1, "bind_buffer", vbo.id, -1, <<>>))
    /\ pc' = "nest_inner_drop"
    /\ UNCHANGED <<caller, self, idx, binders, painters, pending, camera, flow,
                   debug_assertions, opname, entry, hist>>

\* the inner block ends, _inner is dropped
Nest_inner_drop ==
    /\ pc = "nest_inner_drop"
    /\ \E err \in BOOLEAN : DropStep(err)
    /\ pc' = "nest_outer_drop"
    /\ UNCHANGED <<caller, self, idx, binders, painters, pending, camera, flow,
                   debug_assertions, opname, entry, hist>>

\* the outer block ends, _outer is dropped
Nest_outer_drop ==
    /\ pc = "nest_outer_drop"
    /\ \E err \in BOOLEAN : DropStep(err)
    /\ pc' = "idle"
    /\ UNCHANGED <<caller, self, idx, binders, painters, pending, camera, flow,
                   debug_assertions, opname, entry, hist>>

NestNext ==
    \/ Any_BufferObject_create
    \/ Nest_call
    \/ Nest_outer
    \/ Nest_inner
    \/ Nest_inner_drop
    \/ Nest_outer_drop

NestSpec == Init /\ [][NestNext]_vars

\* ================================================================ main()
\* main() as the list of its statements; `caller` is <<part, statement>>:
\* the parts are the setup (lines 463-510) and, inside the event-loop
\* closure, the keyboard arm, the redraw arm and the closure's tail.
\* A float literal is written in tenths; a float computed by sp() or
\* labyrinth() is written as the number of the place that computes it.
MaxKeys == 1

Checked(call) == <<call, [k |-> "gl_assert_no_err"]>>

\* { let _uniform_binder = painter.binder().program_binder();
\*   gl_assert_no_err!(); then each call followed by gl_assert_no_err!(); }
UniformBlock(binder, calls) ==
    [k |-> "uniform_block", binder |-> binder,
     stmts |-> <<[k |-> "gl_assert_no_err"]>> \o calls]

UniformCall(call, location, value) ==
    Checked([k |-> "uniform", call |-> call, location |-> location, value |-> value])

\* Triangle::new(), lines 251-303
Triangle_new ==
    << [k |-> "BufferObject::create", element_count |-> 2,
        attrs |-> << <<-5, 0>>, <<5, 0>>, <<0, 8>> >>],
       [k |-> "BufferObject::create", element_count |-> 3,
        attrs |-> << <<10, 0, 0>>, <<0, 10, 0>>, <<0, 0, 10>> >>],
       [k |-> "BufferObject::create", element_count |-> 1,
        attrs |-> << <<5>>, <<5>>, <<5>> >>],
       [k |-> "BufferObject::create", element_count |-> 2,
        attrs |-> << <<0, 5>>, <<-5, -2>>, <<5, -2>> >>],
       [k |-> "IndexBufferObject::create", indices |-> <<1, 2, 3>>, kind |-> "u8"],
       [k |-> "Program::from_file"],
       [k |-> "Binder::new", binder |-> "triangle", ebo |-> TRUE],
       [k |-> "upload", binder |-> "triangle"],
       [k |-> "divisor_block", binder |-> "triangle", slots |-> <<2, 3>>] >>

\* sp(), lines 336-346: the indices pushed for one sector of one stack
sp_sector(stack_index, k1, k2, poly_count) ==
    (IF stack_index # 0
     THEN <<k1, k2, (k1 + 1) % 65536>> ELSE <<>>)
    \o (IF stack_index # poly_count - 1
        THEN <<(k1 + 1) % 65536, k2, (k2 + 1) % 65536>> ELSE <<>>)

RECURSIVE sp_stack(_, _, _, _, _)
\* sp(), line 336: for (k1, k2) in (k1..).zip(k2..).take(poly_count)
sp_stack(stack_index, k1, k2, taken, poly_count) ==
    IF taken = poly_count THEN <<>>
    ELSE sp_sector(stack_index, k1, k2, poly_count)
         \o sp_stack(stack_index, (k1 + 1) % 65536, (k2 + 1) % 65536,
                     taken + 1, poly_count)

RECURSIVE sp_indices(_, _)
\* sp(), lines 331-348: for stack_index in 0..poly_count
sp_indices(stack_index, poly_count) ==
    IF stack_index = poly_count THEN <<>>
    ELSE LET k1 == (stack_index * (poly_count + 1)) % 65536
             k2 == (k1 + poly_count + 1) % 65536
         IN  sp_stack(stack_index, k1, k2, 0, poly_count)
             \o sp_indices(stack_index + 1, poly_count)

\* sp(radius, poly_count), lines 306-351: one vertex and one normal
\* (point / radius) for each of the (poly_count + 1)^2 points, and the indices
sp(radius, poly_count) ==
    LET points == (poly_count + 1) * (poly_count + 1)
        point(p) == [a \in 1..3 |-> radius * (3 * (p - 1) + a)]
    IN  [vertices |-> [p \in 1..points |-> point(p)],
         normals  |-> [p \in 1..points |-> [a \in 1..3 |-> point(p)[a] \div radius]],
         indices  |-> sp_indices(0, poly_count)]

\* Mutant of sphere: the Binder is returned without binder.upload().
sphere_not_uploaded ==
    LET mesh == sp(1, 25)
    IN  << [k |-> "BufferObject::create", element_count |-> 3, attrs |-> mesh.vertices],
           [k |-> "BufferObject::create", element_count |-> 3, attrs |-> mesh.normals],
           [k |-> "IndexBufferObject::create", indices |-> mesh.indices, kind |-> "u16"],
           [k |-> "Program::from_file"],
           [k |-> "Binder::new", binder |-> "sphere", ebo |-> TRUE] >>

\* sphere(), lines 353-373
sphere ==
    LET mesh == sp(1, 25)
    IN  << [k |-> "BufferObject::create", element_count |-> 3, attrs |-> mesh.vertices],
           [k |-> "BufferObject::create", element_count |-> 3, attrs |-> mesh.normals],
           [k |-> "IndexBufferObject::create", indices |-> mesh.indices, kind |-> "u16"],
           [k |-> "Program::from_file"],
           [k |-> "Binder::new", binder |-> "sphere", ebo |-> TRUE],
           [k |-> "upload", binder |-> "sphere"] >>

\* labyrinth(n), lines 384-417: three positions for each of the n^3 cells
labyrinth(n) ==
    << [k |-> "BufferObject::create", element_count |-> 3,
        attrs |-> [p \in 1..(n * n * n * 3) |-> [a \in 1..3 |-> 3 * (p - 1) + a]]],
       [k |-> "Program::from_file"],
       [k |-> "Binder::new", binder |-> "labyrinth", ebo |-> FALSE],
       [k |-> "upload", binder |-> "labyrinth"] >>

\* main(), line 468
grid_size == 5

\* main(), lines 463-510
MainSetup ==
    Triangle_new
    \o sphere
    \o << [k |-> "Painter::new", painter |-> "ball_painter", binder |-> "sphere"],
          [k |-> "Painter::new", painter |-> "triangle_painter", binder |-> "triangle"],
          [k |-> "instanced", painter |-> "triangle_painter", n |-> 1000] >>
    \o labyrinth(grid_size)
    \o << [k |-> "Painter::new", painter |-> "labyrinth_painter", binder |-> "labyrinth"],
          [k |-> "instanced", painter |-> "labyrinth_painter",
           n |-> grid_size * grid_size * grid_size],
          UniformBlock("triangle",
              UniformCall("UniformMatrix4fv", 0, "perspective")
              \o UniformCall("UniformMatrix4fv", 1, "camera")
              \o UniformCall("Uniform1f", 2, "10.0")),
          UniformBlock("sphere",
              UniformCall("UniformMatrix4fv", 0, "perspective")
              \o UniformCall("UniformMatrix4fv", 1, "camera")
              \o UniformCall("Uniform3f", 2, "light_direction")),
          UniformBlock("labyrinth",
              UniformCall("UniformMatrix4fv", 0, "perspective")
              \o UniformCall("UniformMatrix4fv", 1, "camera")),
          [k |-> "gl_assert_no_err"],
          [k |-> "gl", call |-> "Enable"],
          [k |-> "gl_assert_no_err"] >>

\* main(), lines 532-549: the three blocks of the keyboard arm
MainKeyboard ==
    << UniformBlock("triangle", UniformCall("UniformMatrix4fv", 1, "camera")),
       UniformBlock("sphere", UniformCall("UniformMatrix4fv", 1, "camera")),
       UniformBlock("labyrinth", UniformCall("UniformMatrix4fv", 1, "camera")) >>

\* main(), lines 556-560: the redraw arm
MainRedraw ==
    << [k |-> "gl", call |-> "ClearColor"],
       [k |-> "gl", call |-> "Clear"],
       [k |-> "swap_buffers"] >>

\* main(), lines 565-569: the tail of the closure, run for every event
MainFrame ==
    << [k |-> "gl", call |-> "Clear"],
       [k |-> "draw", painter |-> "labyrinth_painter"],
       [k |-> "draw", painter |-> "ball_painter"],
       [k |-> "swap_buffers"] >>

MainCode ==
    [setup |-> MainSetup, keyboard |-> MainKeyboard,
     redraw |-> MainRedraw, frame |-> MainFrame]

\* The statement main() is at.
Stmt == MainCode[caller[1]][caller[2]]

InMain(kind) ==
    /\ pc = "idle"
    /\ caller[1] \in DOMAIN MainCode
    /\ Stmt.k = kind

\* The statement after the one main() is at: the setup is followed by the
\* event loop, an arm of the match by the closure's tail, and the tail by
\* the next event, or by the end of the process after Event::LoopDestroyed.
Advance ==
    caller' = IF caller[2] < Len(MainCode[caller[1]]) THEN <<caller[1], caller[2] + 1>>
              ELSE CASE caller[1] = "setup" -> <<"event", 0>>
                     [] caller[1] \in {"keyboard", "redraw"} -> <<"frame", 1>>
                     [] caller[1] = "frame" ->
                            IF pending.event = "LoopDestroyed" THEN <<"exited", 0>>
                            ELSE <<"event", 0>>

\* The value a uniform call passes.
UniformValue(value) ==
    CASE value = "camera" -> <<"look_at">> \o camera
      [] value = "light_direction" -> <<"1.0", "-1.0", "1.0">>
      [] OTHER -> <<value>>

\* lines 521-531: match keycode { ... camera *= transform ... _ => () }
Keycodes == {"A", "D", "Q", "Z", "W", "S", "R", "L", "Other"}

KeyTransform(keycode) ==
    CASE keycode = "A" -> <<"trans_left">>
      [] keycode = "D" -> <<"trans_right">>
      [] keycode = "Q" -> <<"trans_up">>
      [] keycode = "Z" -> <<"trans_down">>
      [] keycode = "W" -> <<"trans_front">>
      [] keycode = "S" -> <<"trans_back">>
      [] keycode = "R" -> <<"right_y_rotation_matrix">>
      [] keycode = "L" -> <<"left_y_rotation_matrix">>
      [] OTHER -> <<>>

\* The events the loop hands to the closure.
Events ==
    [event : {"KeyboardInput"}, keycode : {None} \cup {Some(c) : c \in Keycodes}]
    \cup [event : {"LoopDestroyed", "CloseRequested", "WindowEvent",
                   "RedrawRequested", "Other"},
          keycode : {None}]

\* BufferObject::create(attrs) (attributes!(...) in Triangle::new)
Main_BufferObject_create ==
    /\ InMain("BufferObject::create")
    /\ LET g1  == glCreateBuffers(gl)
           vbo == BufferObject_create(Stmt.attrs,
                      [element_count |-> Stmt.element_count, kind |-> "f32"], g1.buffers)
       IN  /\ gl' = g1
           /\ pending' = [pending EXCEPT !.vbos = Append(@, vbo)]
           /\ log' = <<Op(g1, "create_buffer", g1.buffers, -1, <<>>)>>
    /\ opname' = "BufferObject::create"
    /\ Advance
    /\ UNCHANGED <<pc, self, idx, locals, guards, binders, painters,
                   camera, flow, debug_assertions, entry, hist>>

\* IndexBufferObject::create(indices)
Main_IndexBufferObject_create ==
    /\ InMain("IndexBufferObject::create")
    /\ LET g1 == glCreateBuffers(gl)
       IN  /\ gl' = g1
           /\ pending' = [pending EXCEPT !.ebo =
                 Some(IndexBufferObject_create(Stmt.indices, Stmt.kind, g1.buffers))]
           /\ log' = <<Op(g1, "create_buffer", g1.buffers, -1, <<>>)>>
    /\ opname' = "IndexBufferObject::create"
    /\ Advance
    /\ UNCHANGED <<pc, self, idx, locals, guards, binders, painters,
                   camera, flow, debug_assertions, entry, hist>>

\* Program::from_file(vertex, fragment)
Main_Program_from_file ==
    /\ InMain("Program::from_file")
    /\ gl' = Program_from_file(gl)
    /\ pending' = [pending EXCEPT !.program = Some(gl'.programs)]
    /\ log' = <<Op(gl', "create_program", gl'.programs, -1, <<>>)>>
    /\ opname' = "Program::from_file"
    /\ Advance
    /\ UNCHANGED <<pc, self, idx, locals, guards, binders, painters,
                   camera, flow, debug_assertions, entry, hist>>

\* Binder::new(vec!(...), Some(index_buf) or None, program, Vec::new())
Main_Binder_new ==
    /\ InMain("Binder::new")
    /\ LET r == Binder_new(gl, pending.vbos, IF Stmt.ebo THEN pending.ebo ELSE None,
                           Unwrap(pending.program), <<>>)
       IN  /\ gl' = r.gl
           /\ binders' = (Stmt.binder :> r.binder) @@ binders
           /\ log' = r.ops
    /\ entry' = Snapshot(gl, binders)
    /\ hist' = HistBinder(hist, Stmt.binder)
    /\ pending' = NoPending
    /\ opname' = "Binder::new"
    /\ Advance
    /\ UNCHANGED <<pc, self, idx, locals, guards, painters, camera, flow,
                   debug_assertions>>

\* binder.upload()
Main_upload ==
    /\ InMain("upload")
    /\ Binder_upload_call(Stmt.binder)
    /\ Advance
    /\ UNCHANGED <<locals, binders, painters, pending, camera, flow, gl,
                   debug_assertions>>

\* Triangle::new(), lines 296-300: the divisor block
Main_divisor_block ==
    /\ InMain("divisor_block")
    /\ pending' = [pending EXCEPT !.slots = Stmt.slots]
    /\ Call("divisor", Stmt.binder, "divisor_bind")
    /\ Advance
    /\ UNCHANGED <<locals, binders, painters, camera, flow, gl,
                   debug_assertions, hist>>

\* Painter::new(binder, DrawMode::Triangles)
Main_Painter_new ==
    /\ InMain("Painter::new")
    /\ painters' = (Stmt.painter :> Painter_new(Stmt.binder, "Triangles")) @@ painters
    /\ hist' = [hist EXCEPT !.built = (Stmt.painter :> None) @@ @]
    /\ opname' = "Painter::new"
    /\ log' = <<>>
    /\ Advance
    /\ UNCHANGED <<pc, self, idx, locals, guards, binders, pending, camera,
                   flow, gl, debug_assertions, entry>>

\* .instanced(instance_count)
Main_Painter_instanced ==
    /\ InMain("instanced")
    /\ painters' = [painters EXCEPT ![Stmt.painter] = Painter_instanced(@, Stmt.n)]
    /\ hist' = [hist EXCEPT !.built[Stmt.painter] = Some(Stmt.n)]
    /\ opname' = "Painter::instanced"
    /\ log' = <<>>
    /\ Advance
    /\ UNCHANGED <<pc, self, idx, locals, guards, binders, pending, camera,
                   flow, gl, debug_assertions, entry>>

\* A block of uniform updates is entered.
Main_uniform_block ==
    /\ InMain("uniform_block")
    /\ pending' = [pending EXCEPT !.block = Stmt.stmts]
    /\ Call("uniform_block", Stmt.binder, "block_bind")
    /\ Advance
    /\ UNCHANGED <<locals, binders, painters, camera, flow, gl,
                   debug_assertions, hist>>

\* let _uniform_binder = painter.binder().program_binder();
Block_bind ==
    /\ pc = "block_bind"
    /\ \E err \in BOOLEAN :
         LET b   == binders[self]
             gid == <<"_uniform_binder", 0>>
             g1  == Raise(ProgramScopedBinder_new(gl, b.program), err)
         IN  /\ gl' = g1
             /\ guards' = GuardNew(guards, gid, "program", b.program)
             /\ locals' = Append(locals, <<gid>>)
             /\ log' = Append(log, Op(g1, "bind_program", b.program, -1, <<>>))
             /\ pc' = "block_stmt"
    /\ UNCHANGED <<caller, self, idx, binders, painters, pending, camera, flow,
                   debug_assertions, opname, entry, hist>>

\* The statement after statement i of the block.
Block_next(i) == IF i < Len(pending.block) THEN "block_stmt" ELSE "block_drop"

\* gl_assert_no_err!(); inside a block
Block_assert ==
    /\ pc = "block_stmt"
    /\ pending.block[idx + 1].k = "gl_assert_no_err"
    /\ gl_assert_no_err(Block_next(idx + 1))
    /\ idx' = idx + 1
    /\ UNCHANGED <<caller, self, locals, guards, binders, painters, pending,
                   camera, flow, debug_assertions, opname, entry, hist>>

\* gl::UniformMatrix4fv(location, ..), gl::Uniform1f, gl::Uniform3f
Block_uniform ==
    /\ pc = "block_stmt"
    /\ pending.block[idx + 1].k = "uniform"
    /\ \E err \in BOOLEAN :
         LET s  == pending.block[idx + 1]
             g1 == Raise(glUniform(gl, s.location, UniformValue(s.value)), err)
         IN  /\ gl' = g1
             /\ log' = Append(log, Op(g1, s.call, gl.program, s.location,
                                      UniformValue(s.value)))
    /\ idx' = idx + 1
    /\ pc' = Block_next(idx + 1)
    /\ UNCHANGED <<caller, self, locals, guards, binders, painters, pending,
                   camera, flow, debug_assertions, opname, entry, hist>>

\* the block ends, _uniform_binder is dropped
Block_drop ==
    /\ pc = "block_drop"
    /\ \E err \in BOOLEAN : DropStep(err)
    /\ pc' = "idle"
    /\ UNCHANGED <<caller, self, idx, binders, painters, pending, camera, flow,
                   debug_assertions, opname, entry, hist>>

\* main(), lines 508 and 510: gl_assert_no_err!();
Main_assert ==
    /\ InMain("gl_assert_no_err")
    /\ gl_assert_no_err("idle")
    /\ Advance
    /\ UNCHANGED <<self, idx, locals, guards, binders, painters, pending,
                   camera, flow, debug_assertions, opname, entry, hist>>

\* gl::Enable, gl::ClearColor, gl::Clear: calls that touch no binding
Main_gl ==
    /\ InMain("gl")
    /\ \E err \in BOOLEAN :
         /\ gl' = Raise(gl, err)
         /\ log' = <<Op(gl', Stmt.call, 0, -1, <<>>)>>
    /\ opname' = Stmt.call
    /\ Advance
    /\ UNCHANGED <<pc, self, idx, locals, guards, binders, painters, pending,
                   camera, flow, debug_assertions, entry, hist>>

\* gl_context.swap_buffers().unwrap(): an Err panics
Main_swap_buffers ==
    /\ InMain("swap_buffers")
    /\ \E ok \in BOOLEAN : pc' = IF ok THEN "idle" ELSE PanicPc(locals)
    /\ opname' = "swap_buffers"
    /\ log' = <<>>
    /\ Advance
    /\ UNCHANGED <<self, idx, locals, guards, binders, painters, pending,
                   camera, flow, gl, debug_assertions, entry, hist>>

\* painter.draw()
Main_draw ==
    /\ InMain("draw")
    /\ Painter_draw_call(Stmt.painter)
    /\ Advance
    /\ UNCHANGED <<locals, binders, painters, pending, camera, flow, gl,
                   debug_assertions, hist>>

\* main(), lines 512-563: the closure is called with an event.  After
\* ControlFlow::Exit the loop hands over Event::LoopDestroyed and nothing else.
Main_event ==
    /\ pc = "idle"
    /\ caller = <<"event", 0>>
    /\ \E e \in Events :
         /\ (e.event = "LoopDestroyed") <=> (flow = "Exit")
         /\ IsSome(e.keycode) => Len(camera \o KeyTransform(Unwrap(e.keycode))) <= MaxKeys
         /\ pending' = [pending EXCEPT !.event = e.event]
         /\ flow' = IF e.event = "CloseRequested" THEN "Exit" ELSE "Wait"
         /\ camera' = IF IsSome(e.keycode)
                      THEN camera \o KeyTransform(Unwrap(e.keycode)) ELSE camera
         /\ caller' = CASE IsSome(e.keycode) -> <<"keyboard", 1>>
                        [] e.event = "RedrawRequested" -> <<"redraw", 1>>
                        [] OTHER -> <<"frame", 1>>
    /\ UNCHANGED <<pc, self, idx, locals, guards, binders, painters, gl,
                   debug_assertions, log, opname, entry, hist>>

MainInit ==
    /\ caller = <<"setup", 1>>
    /\ pc = "idle"
    /\ self = ""
    /\ idx = 0
    /\ locals = <<>>
    /\ guards = EmptyFn
    /\ binders = EmptyFn
    /\ painters = EmptyFn
    /\ pending = NoPending
    /\ camera = <<>>
    /\ flow = "Poll"
    /\ gl = GlInit
    /\ debug_assertions \in BOOLEAN
    /\ log = <<>>
    /\ opname = ""
    /\ entry = Snapshot(GlInit, EmptyFn)
    /\ hist = HistInit

\* Every Binder of main() is built with Vec::new() for its uniforms, so the
\* uniform statement of upload() is never reached from main().
MainNext ==
    \/ Main_BufferObject_create
    \/ Main_IndexBufferObject_create
    \/ Main_Program_from_file
    \/ Main_Binder_new
    \/ Main_upload
    \/ Main_divisor_block
    \/ Main_Painter_new
    \/ Main_Painter_instanced
    \/ Main_uniform_block
    \/ Block_bind
    \/ Block_assert
    \/ Block_uniform
    \/ Block_drop
    \/ Main_assert
    \/ Main_gl
    \/ Main_swap_buffers
    \/ Main_draw
    \/ Main_event
    \/ Steps

MainSpec == MainInit /\ [][MainNext]_vars

\* ================================================================ claims
\* The places of the log holding one of the calls named.
At(ops) == {i \in 1..Len(log) : log[i].op \in ops}

VboWork == {"bind_buffer", "buffer_data", "vertex_attrib_pointer", "drop_buffer"}
EboWork == {"bind_index_buffer", "index_buffer_data", "drop_index_buffer"}

\* C1: upload() works in a fixed order: the Program is bound first, then
\* every Uniform, then the VAO and every vertex buffer (bound, uploaded,
\* configured), and only then the index buffer, if there is one.  No uniform
\* is bound before the program, no buffer work precedes the last uniform
\* bind, no index-buffer work precedes the last vertex-buffer work; an
\* upload() that returns has done all of it.
C1_UploadOrder ==
    opname = "upload" =>
        LET b == binders[self]
            U == At({"bind_uniform"})
            A == At({"bind_vertex_array"})
            V == At(VboWork)
            X == At(EboWork)
        IN  /\ log # <<>> => log[1].op = "bind_program"
            /\ Cardinality(At({"bind_program"})) <= 1
            /\ \A u \in U : 1 < u
            /\ \A v \in A \cup V : Cardinality({u \in U : u < v}) = Len(b.uniforms)
            /\ \A v \in V : \E a \in A : a < v
            /\ \A x \in X :
                 /\ \E a \in A : a < x
                 /\ Cardinality({v \in At({"drop_buffer"}) : v < x}) = Len(b.vbos)
            /\ \A v \in V : \A x \in X : v < x
            /\ pc = "idle" =>
                 /\ Cardinality(U) = Len(b.uniforms)
                 /\ \A op \in VboWork : Cardinality(At({op})) = Len(b.vbos)
                 /\ \A op \in EboWork :
                      Cardinality(At({op})) = IF IsSome(b.ebo) THEN 1 ELSE 0

\* C1 witness: an upload() with a uniform, two vertex buffers and an index
\* buffer has returned.
C1_Witness ==
    /\ opname = "upload" /\ pc = "idle"
    /\ Len(binders[self].uniforms) >= 1
    /\ Len(binders[self].vbos) = 2
    /\ IsSome(binders[self].ebo)

\* The binding point a guard of the given type binds.
BindingPoint(g, type) ==
    CASE type = "program"      -> g.program
      [] type = "vertex_array" -> g.vertex_array
      [] type = "buffer"       -> g.buffer["VERTEX_ARRAY"]
      [] type = "index_buffer" -> g.buffer["ELEMENT_ARRAY_BUFFER"]

InScope(gid) == \E i \in 1..Len(locals) : \E j \in 1..Len(locals[i]) : locals[i][j] = gid

\* C2: every guard goes from Bound to Released exactly once.  It binds its
\* handle when constructed; when its scope ends (return or unwinding) its
\* binding point is set to 0, once; no guard is released twice, none is left
\* Bound after its scope has ended.
C2_GuardReleasedOnce ==
    /\ \A gid \in DOMAIN guards :
         LET x == guards[gid]
         IN  /\ x.releases \in {0, 1}
             /\ x.state = "Bound" <=> x.releases = 0
             /\ x.state = "Released" <=> x.releases = 1
             /\ x.state = "Bound" <=> InScope(gid)
             /\ x.state = "Bound" => BindingPoint(gl, x.type) = x.handle
    /\ \A type \in {"program", "vertex_array", "buffer", "index_buffer"} :
         (\A gid \in DOMAIN guards : guards[gid].type = type => guards[gid].state = "Released")
            => BindingPoint(gl, type) = 0
    /\ pc \in {"idle", "panicked"} => Alive(guards) = {}

\* C2 witness: a panic in the second turn of upload()'s loop has unwound; the
\* buffer guards of both turns were released.
C2_Witness ==
    /\ opname = "upload" /\ pc = "panicked"
    /\ <<"_scoped_binder", 1>> \in DOMAIN guards
    /\ guards[<<"_scoped_binder", 1>>].releases = 1
    /\ guards[<<"_scoped_binder", 0>>].releases = 1

\* C3 (as claimed): the draw guard acquires the Program guard first and the
\* VAO guard second, and releases them in reverse order: the VAO guard is
\* released before the Program guard.
C3_ReverseRelease ==
    opname = "draw" =>
        /\ \A i \in At({"bind_program"}) : \A j \in At({"bind_vertex_array"}) : i < j
        /\ \A i \in At({"drop_program"}) : \A j \in At({"drop_vertex_array"}) : j < i

\* C4: draw() picks the drawing call from two facts only, whether an instance
\* count is set and whether the Binder has an index buffer; a Painter from
\* new() is not instanced, after instanced(n) it is instanced with count n,
\* whatever the divisors of the VAO.
C4_DrawShape ==
    /\ \A q \in DOMAIN painters : painters[q].instance_count = hist.built[q]
    /\ opname = "draw" =>
         \A d \in At(DrawShapes) :
            LET instanced == IsSome(hist.built[self])
                indexed   == IsSome(binders[painters[self].binder].ebo)
            IN  /\ log[d].op =
                      IF instanced
                      THEN IF indexed THEN "instanced::draw_indexed"
                                      ELSE "instanced::draw_arrays"
                      ELSE IF indexed THEN "draw_indexed" ELSE "draw_arrays"
                /\ log[d].slot = IF instanced THEN Unwrap(hist.built[self]) ELSE -1

\* C4 witness: with divisor 1 set on slot 0 of its VAO, a Painter instanced
\* with 1000 on a Binder with an index buffer issued the instanced indexed call.
C4_Witness ==
    /\ opname = "draw"
    /\ \E d \in At({"instanced::draw_indexed"}) : log[d].slot = 1000
    /\ <<binders["b"].vao, 0>> \in DOMAIN gl.divisors
    /\ gl.divisors[<<binders["b"].vao, 0>>] = 1

HasGeometry(b) == IsSome(b.ebo) \/ b.vbos # <<>>

\* C5 (as claimed): every call of draw() issues exactly one drawing call.
C5_ExactlyOneDraw ==
    (opname = "draw" /\ pc \in {"idle", "panicked"}) => Cardinality(At(DrawShapes)) = 1

\* C5 (amended): a call of draw() issues at most one drawing call: exactly one
\* when the Binder has an index buffer or a vertex buffer, none when it has
\* neither (vertex_count() panics first).  The call is issued while the
\* Binder's Program and VAO are bound by the guard acquired at the start of
\* draw(); when draw() has ended, by return or by panic, both are released.
C5_DrawOnceWhileBound ==
    opname = "draw" =>
        LET b == binders[painters[self].binder]
            D == At(DrawShapes)
        IN  /\ Cardinality(D) <= 1
            /\ \A d \in D :
                 /\ d = 3
                 /\ log[1].op = "bind_program" /\ log[1].obj = b.program
                 /\ log[2].op = "bind_vertex_array" /\ log[2].obj = b.vao
                 /\ log[d].program = b.program
                 /\ log[d].vertex_array = b.vao
            /\ pc \in {"draw_check", "draw_match"} =>
                 /\ guards[<<"_draw_scoped_binder.0", 0>>].state = "Bound"
                 /\ guards[<<"_draw_scoped_binder.1", 0>>].state = "Bound"
            /\ pc \in {"idle", "panicked"} =>
                 /\ Cardinality(D) = IF HasGeometry(b) THEN 1 ELSE 0
                 /\ guards[<<"_draw_scoped_binder.0", 0>>].releases = 1
                 /\ guards[<<"_draw_scoped_binder.1", 0>>].releases = 1
                 /\ gl.program = 0 /\ gl.vertex_array = 0
            /\ pc = "idle" => Cardinality(D) = 1

\* C5 witness: a draw() that panicked after its drawing call has unwound.
C5_Witness ==
    /\ opname = "draw" /\ pc = "panicked"
    /\ Cardinality(At(DrawShapes)) = 1
    /\ guards[<<"_draw_scoped_binder.1", 0>>].releases = 1

\* The count the claim names: the index buffer's, else the first vertex buffer's.
ClaimedVertexCount(b) ==
    IF IsSome(b.ebo) THEN Len(Unwrap(b.ebo).buffer)
    ELSE Len(b.vbos[1].buffer) \div b.vbos[1].attr_type.element_count

\* C6: vertex_count() is the index buffer's element count when there is an
\* index buffer, whatever the vertex buffers hold, and the first vertex
\* buffer's element count otherwise, before and after upload(); upload()
\* does not change it.
C6_VertexCount ==
    /\ opname = "vertex_count" =>
         /\ \A i \in At({"vertex_count"}) : log[i].obj = ClaimedVertexCount(binders[self])
         /\ At({"panic"}) # {} => ~HasGeometry(binders[self])
    /\ opname = "draw" =>
         \A d \in At(DrawShapes) :
            log[d].obj = ClaimedVertexCount(binders[painters[self].binder])
    /\ opname = "upload" =>
         Binder_vertex_count(binders[self]) = Binder_vertex_count(entry.binders[self])

\* C6 witness: after an upload(), vertex_count() returned the index buffer's
\* count, which differs from the first vertex buffer's.
C6_Witness ==
    /\ opname = "vertex_count" /\ pc = "idle"
    /\ hist.completed[self] >= 1
    /\ IsSome(binders[self].ebo) /\ binders[self].vbos # <<>>
    /\ log[1].obj # Buffer_vertex_count(Head(binders[self].vbos))

ConfiguringCalls == {"buffer_data", "index_buffer_data", "vertex_attrib_pointer", "bind_uniform"}

\* C7 (as claimed): Binder::new makes no device call.
C7_NewNoDeviceCall ==
    opname = "Binder::new" => log = <<>>

\* C7 (amended): Binder::new makes one device call, the creation of the VAO's
\* name; it binds nothing, uploads nothing and configures nothing.  Data is
\* uploaded and slots and uniforms are configured by upload() only.
C7_NewAllocatesOnly ==
    /\ opname = "Binder::new" =>
         /\ Len(log) = 1 /\ log[1].op = "create_vertex_array"
         /\ <<gl.buffers, gl.vaos, gl.programs>> =
               <<entry.names[1], entry.names[2] + 1, entry.names[3]>>
         /\ gl.program = entry.program /\ gl.vertex_array = entry.vertex_array
         /\ gl.buffer = entry.buffer
         /\ gl.store = entry.store /\ gl.slots = entry.slots
         /\ gl.divisors = entry.divisors /\ gl.uniforms = entry.uniforms
    /\ At(ConfiguringCalls) # {} => opname = "upload"

\* C7 witness: a Binder of two vertex buffers and an index buffer was built.
C7_Witness ==
    /\ opname = "Binder::new"
    /\ Len(binders["b"].vbos) = 2 /\ IsSome(binders["b"].ebo)

\* C10: upload() is idempotent on the device.  A later upload() with the same
\* local data makes the calls of the first with the same bytes and layouts,
\* and leaves the device data and the VAO's slots as they were after the
\* first: slots are overwritten, none is added.  upload() leaves the Binder's
\* local data unchanged.
C10_UploadIdempotent ==
    (opname = "upload" /\ pc = "idle") =>
        LET b == binders[self]
        IN  /\ binders = entry.binders
            /\ \A i \in At({"buffer_data"}) : log[i].data = b.vbos[log[i].slot + 1].buffer
            /\ {k \in DOMAIN gl.slots : k[1] = b.vao} =
                  {<<b.vao, i>> : i \in 0..(Len(b.vbos) - 1)}
            /\ hist.completed[self] >= 2 =>
                 /\ log = Unwrap(hist.first[self])
                 /\ gl.store = entry.store
                 /\ gl.slots = entry.slots
                 /\ gl.divisors = entry.divisors
                 /\ gl.uniforms = entry.uniforms

\* C10 witness: a second upload() of a Binder with two vertex buffers, one
\* of them with data, and an index buffer has returned.
C10_Witness ==
    /\ opname = "upload" /\ pc = "idle"
    /\ hist.completed[self] >= 2
    /\ Len(binders[self].vbos) = 2
    /\ \E i \in 1..2 : binders[self].vbos[i].buffer # <<>>
    /\ IsSome(binders[self].ebo)

\* ------------------------------------------------------------------- C8
MainBinders == {"triangle", "sphere", "labyrinth"}

\* C8: in every run of main(), when a draw call for a Binder has been issued
\* or a draw() on it is in progress, that Binder's upload() has been called
\* once and has returned once; upload() is never called a second time on a
\* Binder; and once the event loop runs, the three Binders triangle, sphere
\* and labyrinth have each been uploaded exactly once.
C8_UploadBeforeDraw ==
    /\ \A b \in DOMAIN hist.drawn :
         /\ hist.started[b] <= 1
         /\ hist.completed[b] <= hist.started[b]
         /\ hist.drawn[b] => hist.started[b] = 1 /\ hist.completed[b] = 1
    /\ (opname = "draw" /\ pc # "idle") =>
         /\ hist.started[painters[self].binder] = 1
         /\ hist.completed[painters[self].binder] = 1
    /\ (opname = "upload" /\ pc \notin {"idle", "unwind", "panicked"}) =>
         ~hist.drawn[self]
    /\ caller[1] \in {"event", "keyboard", "redraw", "frame", "exited"} =>
         /\ MainBinders \subseteq DOMAIN binders
         /\ \A b \in MainBinders : hist.started[b] = 1 /\ hist.completed[b] = 1

\* Both Binders drawn by the loop have been drawn, each after its one upload.
C8_Witness ==
    /\ caller[1] = "frame"
    /\ hist.drawn["sphere"] /\ hist.drawn["labyrinth"]
    /\ hist.completed["sphere"] = 1 /\ hist.completed["labyrinth"] = 1

\* ------------------------------------------------------------------- C9
Categories == {"program", "vertex_array", "buffer"}

AliveIn(category) == {gid \in Alive(guards) : Category(guards[gid].type) = category}

\* C9: at every point of main() (scene setup, upload(), the uniform blocks
\* of the setup and of the keyboard arm, draw()), at most one guard of each
\* binding-point category is alive.
C9_OneGuardPerCategory ==
    \A category \in Categories : Cardinality(AliveIn(category)) <= 1

\* Three guards are alive at once, one of each category (inside upload()).
C9_Witness ==
    /\ opname = "upload"
    /\ \A category \in Categories : Cardinality(AliveIn(category)) = 1
    /\ Cardinality(Alive(guards)) = 3

\* ------------------------------------------------------------------ C11
RECURSIVE WidthSum(_, _, _)
\* The sum of the widths of the tuples lo..hi of attrs.
WidthSum(attrs, lo, hi) ==
    IF hi < lo THEN 0
    ELSE IF lo = hi THEN Len(attrs[lo])
    ELSE LET mid == (lo + hi) \div 2
         IN  WidthSum(attrs, lo, mid) + WidthSum(attrs, mid + 1, hi)

\* payload holds the elements of attrs tuple by tuple, in the input order.
Flattened(payload, attrs) ==
    /\ Len(payload) = WidthSum(attrs, 1, Len(attrs))
    /\ \A k \in 1..Len(attrs) : \A j \in 1..Len(attrs[k]) :
         payload[WidthSum(attrs, 1, k - 1) + j] = attrs[k][j]

\* A step of main() that creates a BufferObject leaves the flattened input
\* as the payload of the new object.
C11_CreateFlattens ==
    (InMain("BufferObject::create") /\ Len(pending'.vbos) = Len(pending.vbos) + 1) =>
        LET vbo == pending'.vbos[Len(pending'.vbos)]
        IN  /\ Flattened(vbo.buffer, Stmt.attrs)
            /\ vbo.id = gl'.buffers

\* Every gl::BufferData call of a vertex buffer in upload() passes the whole
\* payload and its length times the element byte size (4 for f32).
C11_UploadSendsAll ==
    opname = "upload" =>
        \A i \in At({"buffer_data"}) :
            LET vbo == binders[self].vbos[log[i].slot + 1]
            IN  /\ log[i].data = vbo.buffer
                /\ log[i].size = Len(vbo.buffer) * 4

\* C11: BufferObject::create flattens its input in order, tuple by tuple, so
\* the payload's length is the sum of the tuple widths, and upload() sends
\* the whole payload with the byte size length * element size.
C11_FlattenAndSend == [][C11_CreateFlattens]_vars /\ []C11_UploadSendsAll

\* C11 witness: the triangle's first buffer, made from three tuples of width
\* two, holds six elements in the input order and has been sent whole.
C11_Witness ==
    /\ opname = "upload" /\ self = "triangle"
    /\ binders["triangle"].vbos[1].buffer = <<-5, 0, 5, 0, 0, 8>>
    /\ \E i \in At({"buffer_data"}) :
         /\ log[i].slot = 0
         /\ log[i].data = <<-5, 0, 5, 0, 0, 8>>
         /\ log[i].size = 24

\* ------------------------------------------------------------------ C12
\* The BufferObjects alive: those waiting for a Binder and those in one.
LiveBufferObjects ==
    {pending.vbos[i] : i \in 1..Len(pending.vbos)}
    \cup UNION {{binders[b].vbos[i] : i \in 1..Len(binders[b].vbos)} : b \in DOMAIN binders}

\* C12: a BufferObject's handle is created once at create(), is a valid
\* buffer name of the device for the whole life of the object, and is
\* released when the object is destroyed: after the Binder has been dropped,
\* none of its buffers' handles is still allocated.
C12_HandleReleased ==
    /\ \A vbo \in LiveBufferObjects : vbo.id \in DOMAIN gl.store
    /\ \A v, w \in LiveBufferObjects : v.id = w.id => v = w
    /\ opname = "drop" =>
         \A i \in 1..Len(entry.binders["b"].vbos) :
             entry.binders["b"].vbos[i].id \notin DOMAIN gl.store

\* ------------------------------------------------------------------ C13
\* C13: in upload(), from the moment a vertex buffer's guard is made until
\* its data has been sent, the buffer's handle is the one bound at the
\* binding point that BufferObject::upload writes to.
C13_BoundIsUploadTarget ==
    (opname = "upload"
     /\ pc \in {"upload_assert_bound", "upload_vbo_upload", "upload_assert_uploaded"}) =>
        LET vbo == binders[self].vbos[idx + 1]
        IN  gl.buffer[BufferObject_upload(vbo).target] = vbo.id

\* ------------------------------------------------------------------ C14
\* Call i of the log lies inside the scope opened by a call `bind` on obj:
\* the bind precedes it and the matching drop does not come in between.
InsideScope(i, bind, drop, obj) ==
    \E j \in 1..(i - 1) :
        /\ log[j].op = bind /\ log[j].obj = obj
        /\ \A k \in (j + 1)..(i - 1) : ~(log[k].op = drop /\ log[k].obj = obj)

\* C14: every set_vertex_attrib_pointer call of upload() is made inside the
\* scope of the Binder's VAO guard and of the guard of the buffer being
\* configured, both guards being Bound when the call has just been made, and
\* after the gl::BufferData call of that buffer.
C14_AttribInsideGuards ==
    opname = "upload" =>
        /\ \A i \in At({"vertex_attrib_pointer"}) :
             /\ InsideScope(i, "bind_vertex_array", "drop_vertex_array", binders[self].vao)
             /\ InsideScope(i, "bind_buffer", "drop_buffer", log[i].obj)
             /\ log[i].obj = binders[self].vbos[log[i].slot + 1].id
             /\ \E j \in 1..(i - 1) :
                  log[j].op = "buffer_data" /\ log[j].obj = log[i].obj
        /\ pc = "upload_assert_configured" =>
             /\ <<"_vao_binder", 0>> \in Alive(guards)
             /\ guards[<<"_vao_binder", 0>>].handle = binders[self].vao
             /\ <<"_scoped_binder", idx>> \in Alive(guards)
             /\ guards[<<"_scoped_binder", idx>>].handle = binders[self].vbos[idx + 1].id
             /\ log[Len(log)].op = "vertex_attrib_pointer"

\* C14 witness: the slot of the second vertex buffer has just been configured.
C14_Witness ==
    /\ opname = "upload" /\ pc = "upload_assert_configured" /\ idx = 1
    /\ log[Len(log)].op = "vertex_attrib_pointer" /\ log[Len(log)].slot = 1

\* ------------------------------------------------------------------ C15
\* The calls of the log with the name given, in the order they were made.
CallsOf(name) == SelectSeq(log, LAMBDA e : e.op = name)

\* The k-th call of each kind names position k - 1.
InPositionOrder(calls) == \A k \in 1..Len(calls) : calls[k].slot = k - 1

Drops(name) ==
    /\ opname \in {"upload", "draw"}
    /\ Len(log') = Len(log) + 1
    /\ log'[Len(log')].op = name

C16_DropKeepsOthers ==
    /\ Drops("drop_buffer") =>
         /\ gl'.vertex_array = gl.vertex_array
         /\ gl'.program = gl.program
    /\ Drops("drop_index_buffer") =>
         /\ gl'.vertex_array = gl.vertex_array
         /\ gl'.program = gl.program
    /\ Drops("drop_vertex_array") =>
         /\ gl'.program = gl.program
         /\ gl'.buffer = gl.buffer
    /\ Drops("drop_program") =>
         /\ gl'.vertex_array = gl.vertex_array
         /\ gl'.buffer = gl.buffer

\* C16: in upload() and draw(), the release of a guard leaves the binding
\* points of the other categories as they were: dropping a buffer guard
\* changes neither the bound vertex array nor the program, and dropping the
\* vertex array guard does not change the program.
C16_ReleaseIsLocal == [][C16_DropKeepsOthers]_vars

\* C16 witness: a vertex buffer guard has just been dropped inside upload()
\* and the Binder's vertex array and program are still bound.
C16_Witness ==
    /\ opname = "upload" /\ pc \in {"upload_vbo_bind", "upload_ebo_bind", "upload_return"}
    /\ log # <<>> /\ log[Len(log)].op = "drop_buffer"
    /\ gl.vertex_array = binders[self].vao /\ gl.vertex_array # 0
    /\ gl.program = binders[self].program /\ gl.program # 0

\* ------------------------------------------------------------------ C17
UploadChecked == {"upload_vbo_bind", "upload_vbo_upload", "upload_attrib"}
UploadChecks == {"upload_assert_bound", "upload_assert_uploaded", "upload_assert_configured"}
Aborted == {"unwind", "panicked"}

\* Each of the three calls is followed by its check; a check that finds the
\* error flag set panics; a panic is never left.
C17_CheckFollows ==
    /\ (opname = "upload" /\ pc \in UploadChecked) => pc' \in UploadChecks
    /\ (opname = "upload" /\ pc \in UploadChecks /\ gl.error) => pc' \in Aborted
    /\ (opname = "upload" /\ pc \in UploadChecks /\ ~gl.error) => pc' \notin Aborted
    /\ pc = "unwind" => pc' \in Aborted
    /\ pc # "panicked"

\* After the panic of an upload() only guards are dropped.
C17_NothingAfterPanic ==
    opname = "upload" =>
        \A i \in At({"panic"}) : \A j \in (i + 1)..Len(log) :
            log[j].op \in {"drop_buffer", "drop_index_buffer",
                           "drop_vertex_array", "drop_program"}

\* C17: in upload(), an error reported after a vertex buffer is bound, after
\* its data is sent or after its slot is configured makes upload() panic at
\* the check that follows that call; the panic is never caught, and no
\* later buffer or index buffer is bound, uploaded or configured.
C17_ErrorAborts == [][C17_CheckFollows]_vars /\ []C17_NothingAfterPanic

\* C17 witness: the upload of the first of two vertex buffers was followed
\* by a panic, and the call has been unwound without touching the second.
C17_Witness ==
    /\ opname = "upload" /\ pc = "panicked"
    /\ Len(binders[self].vbos) = 2 /\ IsSome(binders[self].ebo)
    /\ \E i \in At({"panic"}) : i > 1 /\ log[i - 1].op = "buffer_data" /\ log[i - 1].slot = 0
    /\ Len(CallsOf("bind_buffer")) = 1

\* ------------------------------------------------------------------ C18
\* C18: whenever an upload() or a draw() has returned, after any sequence
\* of such calls, no guard is alive and the program, the vertex array and
\* every buffer binding point are unbound.
C18_NothingLeftBound ==
    (opname \in {"upload", "draw"} /\ pc = "idle") =>
        /\ Alive(guards) = {}
        /\ locals = <<>>
        /\ gl.program = 0
        /\ gl.vertex_array = 0
        /\ \A t \in Targets : gl.buffer[t] = 0

\* C18 witness: a draw() has returned after two uploads of a Binder with
\* two vertex buffers and an index buffer.
C18_Witness ==
    /\ opname = "draw" /\ pc = "idle"
    /\ \E i \in 1..Len(log) : log[i].op \in DrawShapes
    /\ hist.completed[painters[self].binder] = 2
    /\ Len(binders[painters[self].binder].vbos) = 2
    /\ IsSome(binders[painters[self].binder].ebo)

\* ------------------------------------------------------------------ C19
\* C19: the release of a buffer guard sets its binding point to 0 and does
\* not bind again what was bound before the guard was made.  When a second
\* guard has been made and released inside the scope of a first one, the
\* first guard is still Bound and its handle is no longer bound.
C19_ReleaseUnbinds ==
    /\ (log # <<>> /\ log[Len(log)].op = "drop_buffer") => gl.buffer["VERTEX_ARRAY"] = 0
    /\ (opname = "nested" /\ pc = "nest_outer_drop") =>
         /\ guards[<<"_outer", 0>>].state = "Bound"
         /\ guards[<<"_inner", 0>>].state = "Released"
         /\ guards[<<"_outer", 0>>].handle # 0
         /\ gl.buffer["VERTEX_ARRAY"] # guards[<<"_outer", 0>>].handle
         /\ gl.buffer["VERTEX_ARRAY"] = 0

\* C19 witness: the guard of a second buffer has been released inside the
\* scope of the guard of a first one.
C19_Witness ==
    /\ opname = "nested" /\ pc = "nest_outer_drop"
    /\ self[1] # self[2]
    /\ guards[<<"_outer", 0>>].state = "Bound"
    /\ guards[<<"_outer", 0>>].handle # guards[<<"_inner", 0>>].handle

\* ------------------------------------------------------------------ C20
\* A Binder with no index buffer and no vertex buffer.
EmptyBinder(b) == ~IsSome(b.ebo) /\ b.vbos = <<>>

\* C20: for a Binder with no index buffer and no vertex buffer,
\* vertex_count() panics and returns no number; draw() on such a Binder makes
\* no drawing call and never returns, its panic comes right after the two
\* binds of the draw guard, and both parts of that guard are released by the
\* unwinding.
C20_EmptyBinderPanics ==
    /\ (opname = "vertex_count" /\ EmptyBinder(binders[self])) =>
         /\ pc = "panicked"
         /\ log = <<Op(gl, "panic", 0, -1, <<>>)>>
    /\ (opname = "draw" /\ EmptyBinder(binders[painters[self].binder])) =>
         /\ At(DrawShapes) = {}
         /\ pc # "idle" /\ pc # "draw_check" /\ pc # "draw_return"
         /\ pc \in {"unwind", "panicked"} =>
              /\ Len(log) >= 3
              /\ log[1].op = "bind_program"
              /\ log[2].op = "bind_vertex_array"
              /\ log[3].op = "panic"
         /\ pc = "panicked" =>
              /\ guards[<<"_draw_scoped_binder.0", 0>>].state = "Released"
              /\ guards[<<"_draw_scoped_binder.1", 0>>].state = "Released"
              /\ guards[<<"_draw_scoped_binder.0", 0>>].releases = 1
              /\ guards[<<"_draw_scoped_binder.1", 0>>].releases = 1
              /\ Alive(guards) = {} /\ locals = <<>>
              /\ Len(log) = 5
              /\ {log[4].op, log[5].op} = {"drop_program", "drop_vertex_array"}

\* C20 witness: draw() on a Binder with no index buffer and no vertex buffer
\* has panicked and its frame is unwound.
C20_Witness ==
    /\ opname = "draw" /\ pc = "panicked"
    /\ EmptyBinder(binders[painters[self].binder])
    /\ At({"panic"}) = {3}
    /\ guards[<<"_draw_scoped_binder.0", 0>>].state = "Released"
    /\ guards[<<"_draw_scoped_binder.1", 0>>].state = "Released"

====
